---- MODULE Spec2Model ----
(***************************************************************************)
(* A model of the agent core of Manu-manus:                                *)
(*   - ExecutionAgent.execute_step, the step execution engine              *)
(*     (backend/app/domain/services/agents/execution.py);                  *)
(*   - OpenAILLM.ask and the tool-call text protocol                       *)
(*     (backend/app/infrastructure/external/llm/openai_llm.py).            *)
(* Python values are modelled as tagged records (JSON values), Python text *)
(* as TLA+ strings handled character by character.                         *)
(***************************************************************************)
EXTENDS Integers, Sequences, FiniteSets, TLC

VARIABLES
    \* ---- ExecutionAgent.execute_step ----
    pc,             \* position of the execute_step generator
    step,           \* the Step object the caller handed in
    sandbox,        \* self._sandbox: TRUE when a sandbox capability is attached
    consumed,       \* events taken from self.execute(prompt) so far
    emitted,        \* events yielded by execute_step so far
    exec_results,   \* list returned by the last _auto_execute_operations
    sandbox_calls,  \* calls made on self._sandbox, in order
    \* ---- OpenAILLM.ask ----
    ask_pc,         \* position of one ask call
    ask_args,       \* the arguments of the call: tools, tool_choice, response_format
    attempt,        \* loop variable of the retry loop
    ask_log,        \* sleeps and completion-service calls of this ask, in order
    outcomes,       \* what the completion service did on each attempt
    ask_result,     \* value returned (or exception raised) by ask
    \* ---- LocalSandbox and LocalShellSession ----
    sessions,       \* LocalSandbox._sessions: session id -> session object (0: absent)
    session_objs,   \* the LocalShellSession objects ever constructed
    procs,          \* the processes ever launched
    calls,          \* the exec_command calls: finished and in flight
    view,           \* the value view_shell, kill_process or write_to_process has just returned
    \* ---- LocalSandbox file operations ----
    files,          \* the regular files of the host: real path -> content
    dirs,           \* the directories below which the model writes that exist
    file_op,        \* the last file operation: its path, target and outcome
    \* ---- OpenAILLM._inject_tools_into_messages ----
    messages,       \* the history handed to the encoder
    api_messages    \* the list the encoder returned (null before it has)

engineVars == <<pc, step, sandbox, consumed, emitted, exec_results, sandbox_calls>>
askVars == <<ask_pc, ask_args, attempt, ask_log, outcomes, ask_result>>
shellVars == <<sessions, session_objs, procs, calls, view>>
fileVars == <<files, dirs, file_op>>
encodeVars == <<messages, api_messages>>
vars == <<engineVars, askVars, shellVars, fileVars, encodeVars>>

(***************************************************************************)
(* Bounds of the model.                                                    *)
(***************************************************************************)
\* Upstream events one execute_step invocation may take from self.execute.
MaxEvents == 3
\* exec_command calls made on the sandboxes.
MaxCalls == 2

\* The LocalSandbox instances and the session ids their callers use.
Sandboxes == {"sandbox1", "sandbox2"}
SessionIds == {"default", "build"}

\* No sandbox has been used.
\* No view_shell result is held by a caller.
NoView == [op |-> "none"]

ShellIdle ==
    /\ sessions = [sid \in SessionIds |-> 0]
    /\ session_objs = <<>>
    /\ procs = <<>>
    /\ calls = <<>>
    /\ view = NoView

(***************************************************************************)
(* Python / JSON values.                                                   *)
(***************************************************************************)
JNull == [t |-> "null"]
JBool(b) == [t |-> "bool", b |-> b]
JInt(i) == [t |-> "int", i |-> i]
JStr(s) == [t |-> "str", s |-> s]
JList(items) == [t |-> "list", items |-> items]
\* A dict keeps its insertion order: a sequence of key/value pairs.
JObj(pairs) == [t |-> "obj", pairs |-> pairs]
KV(k, v) == [k |-> k, v |-> v]

IsDict(v) == v.t = "obj"

\* key in d, for a dict d.
HasKey(d, k) == \E i \in 1..Len(d.pairs) : d.pairs[i].k = k

\* d[key] for a dict d that has the key (the last pair of that key wins).
GetKey(d, k) ==
    LET idx == {i \in 1..Len(d.pairs) : d.pairs[i].k = k}
        last == CHOOSE i \in idx : \A j \in idx : j <= i
    IN  d.pairs[last].v

\* d.get(key, default)
PyDictGet(d, k, default) == IF HasKey(d, k) THEN GetKey(d, k) ELSE default

\* bool(v): Python truthiness.
PyTruthy(v) ==
    CASE v.t = "null" -> FALSE
      [] v.t = "bool" -> v.b
      [] v.t = "int"  -> v.i # 0
      [] v.t = "str"  -> v.s # ""
      [] v.t = "list" -> Len(v.items) > 0
      [] v.t = "obj"  -> Len(v.pairs) > 0

RECURSIVE PyRepr(_)
RECURSIVE PyReprItems(_)
RECURSIVE PyReprPairs(_)
\* repr(v), as str() uses it for the elements of containers.
PyRepr(v) ==
    CASE v.t = "null" -> "None"
      [] v.t = "bool" -> IF v.b THEN "True" ELSE "False"
      [] v.t = "int"  -> ToString(v.i)
      [] v.t = "str"  -> "'" \o v.s \o "'"
      [] v.t = "list" -> "[" \o PyReprItems(v.items) \o "]"
      [] v.t = "obj"  -> "{" \o PyReprPairs(v.pairs) \o "}"
PyReprItems(items) ==
    IF Len(items) = 0 THEN ""
    ELSE IF Len(items) = 1 THEN PyRepr(items[1])
    ELSE PyRepr(items[1]) \o ", " \o PyReprItems(Tail(items))
PyReprPairs(pairs) ==
    IF Len(pairs) = 0 THEN ""
    ELSE IF Len(pairs) = 1 THEN "'" \o pairs[1].k \o "': " \o PyRepr(pairs[1].v)
    ELSE "'" \o pairs[1].k \o "': " \o PyRepr(pairs[1].v) \o ", " \o PyReprPairs(Tail(pairs))

\* str(v)
PyStr(v) == IF v.t = "str" THEN v.s ELSE PyRepr(v)


PyTypeName(v) ==
    CASE v.t = "null" -> "NoneType"
      [] v.t = "bool" -> "bool"
      [] v.t = "int"  -> "int"
      [] v.t = "str"  -> "str"
      [] v.t = "list" -> "list"
      [] v.t = "obj"  -> "dict"

(***************************************************************************)
(* Text helpers (str.find, str.strip, str.startswith), indices from 1;     *)
(* 0 stands for "not found".                                               *)
(***************************************************************************)
StartsWithAt(s, i, k) ==
    /\ i >= 1
    /\ i + Len(k) - 1 <= Len(s)
    /\ SubSeq(s, i, i + Len(k) - 1) = k

\* s.find(k, from): the least index >= from where k occurs.
Find(s, k, from) ==
    LET hits == {i \in from..(Len(s) - Len(k) + 1) : StartsWithAt(s, i, k)}
    IN  IF hits = {} THEN 0 ELSE CHOOSE i \in hits : \A j \in hits : i <= j

\* s.rfind(k): the greatest index where k occurs.
RFind(s, k) ==
    LET hits == {i \in 1..(Len(s) - Len(k) + 1) : StartsWithAt(s, i, k)}
    IN  IF hits = {} THEN 0 ELSE CHOOSE i \in hits : \A j \in hits : j <= i

\* k in s, for strings.
Contains(s, k) == Find(s, k, 1) # 0

IsSpace(c) == c \in {" ", "\n", "\t", "\r"}

\* The least index >= i whose character is not white space (Len(s)+1 if none).
SkipSpaces(s, i) ==
    LET stops == {j \in i..Len(s) : ~IsSpace(SubSeq(s, j, j))}
    IN  IF stops = {} THEN Len(s) + 1 ELSE CHOOSE j \in stops : \A m \in stops : j <= m

\* s.strip()
Strip(s) ==
    LET keep == {j \in 1..Len(s) : ~IsSpace(SubSeq(s, j, j))}
    IN  IF keep = {} THEN ""
        ELSE SubSeq(s, CHOOSE j \in keep : \A m \in keep : j <= m,
                       CHOOSE j \in keep : \A m \in keep : m <= j)

(***************************************************************************)
(* The events of app.domain.models.event.                                  *)
(***************************************************************************)
ErrorEvent(err) == [type |-> "ErrorEvent", error |-> err]
MessageEvent(m) == [type |-> "MessageEvent", message |-> m]
ToolEvent(name, status, args) ==
    [type |-> "ToolEvent", function_name |-> name, status |-> status, function_args |-> args]
StepEvent(status) == [type |-> "StepEvent", status |-> status]
WaitEvent == [type |-> "WaitEvent"]
DoneEvent == [type |-> "DoneEvent"]

(***************************************************************************)
(* Terminal answers the model may give (the text of an upstream            *)
(* MessageEvent) and what the lenient JSON parser makes of each.           *)
(***************************************************************************)
AnsOk == "{\"success\": true, \"result\": \"ok\", \"attachments\": []}"
AnsFailed == "{\"success\": false, \"result\": \"bad\", \"attachments\": [\"/a\"]}"
AnsNoText == "{\"success\": true, \"result\": \"\", \"attachments\": []}"
AnsBadType == "{\"success\": true, \"result\": \"r\", \"attachments\": 5}"
AnsOps == "{\"success\": true, \"result\": \"w\", \"attachments\": [], \"file_operations\": [{\"path\": \"/home/ubuntu/a\", \"content\": \"\"}, {\"action\": \"append\", \"path\": \"/home/ubuntu/b\", \"content\": \"x\"}], \"shell_commands\": [{\"command\": \"ls\"}]}"
AnsBadOps == "{\"success\": true, \"result\": \"w\", \"attachments\": [], \"file_operations\": [7]}"
\* An entry without path, one without content, and a valid one.
AnsSkips == "{\"success\": true, \"result\": \"w\", \"attachments\": [], \"file_operations\": [{\"path\": \"\", \"content\": \"x\"}, {\"path\": \"/home/ubuntu/c\"}, {\"path\": \"/home/ubuntu/d\", \"content\": \"y\"}]}"
\* An entry that is not a mapping before valid ones.
AnsBadFirst == "{\"success\": true, \"result\": \"w\", \"attachments\": [], \"file_operations\": [7, {\"path\": \"/home/ubuntu/e\", \"content\": \"z\"}], \"shell_commands\": [{\"command\": \"ls\"}]}"
\* Entries that are not mappings after or between valid ones.
AnsBadLater == "{\"success\": true, \"result\": \"w\", \"attachments\": [], \"file_operations\": [{\"path\": \"/home/ubuntu/f\", \"content\": \"z\"}, 7], \"shell_commands\": [7, {\"command\": \"pwd\", \"exec_dir\": \"/tmp\"}]}"
\* Objects without one of the required keys.
AnsNoResult == "{\"success\": true, \"attachments\": [\"/a\"]}"
AnsNoAttachments == "{\"success\": false, \"result\": \"r\"}"
AnsNoResultBadOps == "{\"success\": true, \"file_operations\": [7]}"
AnsProse == "not json"

ObjectAnswers ==
    {AnsOk, AnsFailed, AnsNoText, AnsBadType, AnsOps, AnsBadOps, AnsSkips, AnsBadFirst,
     AnsBadLater, AnsNoResult, AnsNoAttachments, AnsNoResultBadOps}
TruthyAnswers == {"7", "[1,2]"}
FalsyAnswers == {"0", "false", "null", "\"\"", "[]"}
UnparsableAnswers == {AnsProse, ""}
AnswerTexts == ObjectAnswers \cup TruthyAnswers \cup FalsyAnswers \cup UnparsableAnswers

ParseOk(v) == [ok |-> TRUE, v |-> v]
ParseError == [ok |-> FALSE, v |-> JNull]

\* JsonParser.parse(text): the value, or ParseError when the parser raises.
JsonParserParse(text) ==
    CASE text = AnsOk ->
            ParseOk(JObj(<<KV("success", JBool(TRUE)), KV("result", JStr("ok")),
                           KV("attachments", JList(<<>>))>>))
      [] text = AnsFailed ->
            ParseOk(JObj(<<KV("success", JBool(FALSE)), KV("result", JStr("bad")),
                           KV("attachments", JList(<<JStr("/a")>>))>>))
      [] text = AnsNoText ->
            ParseOk(JObj(<<KV("success", JBool(TRUE)), KV("result", JStr("")),
                           KV("attachments", JList(<<>>))>>))
      [] text = AnsBadType ->
            ParseOk(JObj(<<KV("success", JBool(TRUE)), KV("result", JStr("r")),
                           KV("attachments", JInt(5))>>))
      [] text = AnsOps ->
            ParseOk(JObj(<<KV("success", JBool(TRUE)), KV("result", JStr("w")),
                           KV("attachments", JList(<<>>)),
                           KV("file_operations", JList(<<
                               JObj(<<KV("path", JStr("/home/ubuntu/a")), KV("content", JStr(""))>>),
                               JObj(<<KV("action", JStr("append")), KV("path", JStr("/home/ubuntu/b")),
                                      KV("content", JStr("x"))>>)>>)),
                           KV("shell_commands", JList(<<JObj(<<KV("command", JStr("ls"))>>)>>))>>))
      [] text = AnsBadOps ->
            ParseOk(JObj(<<KV("success", JBool(TRUE)), KV("result", JStr("w")),
                           KV("attachments", JList(<<>>)),
                           KV("file_operations", JList(<<JInt(7)>>))>>))
      [] text = AnsSkips ->
            ParseOk(JObj(<<KV("success", JBool(TRUE)), KV("result", JStr("w")), KV("attachments", JList(<<>>)), KV("file_operations", JList(<<JObj(<<KV("path", JStr("")), KV("content", JStr("x"))>>), JObj(<<KV("path", JStr("/home/ubuntu/c"))>>), JObj(<<KV("path", JStr("/home/ubuntu/d")), KV("content", JStr("y"))>>)>>))>>))
      [] text = AnsBadFirst ->
            ParseOk(JObj(<<KV("success", JBool(TRUE)), KV("result", JStr("w")), KV("attachments", JList(<<>>)), KV("file_operations", JList(<<JInt(7), JObj(<<KV("path", JStr("/home/ubuntu/e")), KV("content", JStr("z"))>>)>>)), KV("shell_commands", JList(<<JObj(<<KV("command", JStr("ls"))>>)>>))>>))
      [] text = AnsBadLater ->
            ParseOk(JObj(<<KV("success", JBool(TRUE)), KV("result", JStr("w")), KV("attachments", JList(<<>>)), KV("file_operations", JList(<<JObj(<<KV("path", JStr("/home/ubuntu/f")), KV("content", JStr("z"))>>), JInt(7)>>)), KV("shell_commands", JList(<<JInt(7), JObj(<<KV("command", JStr("pwd")), KV("exec_dir", JStr("/tmp"))>>)>>))>>))
      [] text = AnsNoResult ->
            ParseOk(JObj(<<KV("success", JBool(TRUE)),
                           KV("attachments", JList(<<JStr("/a")>>))>>))
      [] text = AnsNoAttachments ->
            ParseOk(JObj(<<KV("success", JBool(FALSE)), KV("result", JStr("r"))>>))
      [] text = AnsNoResultBadOps ->
            ParseOk(JObj(<<KV("success", JBool(TRUE)),
                           KV("file_operations", JList(<<JInt(7)>>))>>))
      [] text = "7" -> ParseOk(JInt(7))
      [] text = "[1,2]" -> ParseOk(JList(<<JInt(1), JInt(2)>>))
      [] text = "0" -> ParseOk(JInt(0))
      [] text = "false" -> ParseOk(JBool(FALSE))
      [] text = "null" -> ParseOk(JNull)
      [] text = "\"\"" -> ParseOk(JStr(""))
      [] text = "[]" -> ParseOk(JList(<<>>))
      [] OTHER -> ParseError

(***************************************************************************)
(* Step (app.domain.models.plan) and its schema validation.                *)
(***************************************************************************)
NewStep ==
    [status |-> "PENDING", success |-> FALSE, result |-> JNull,
     attachments |-> JList(<<>>), error |-> JNull]

IsStrList(v) == v.t = "list" /\ \A i \in 1..Len(v.items) : v.items[i].t = "str"

\* Step.model_validate(d): a Step when d has success: bool, result: text and
\* attachments: [text] (other keys are ignored), a validation error otherwise.
StepModelValidate(d) ==
    IF /\ HasKey(d, "success") /\ GetKey(d, "success").t = "bool"
       /\ HasKey(d, "result") /\ GetKey(d, "result").t = "str"
       /\ HasKey(d, "attachments") /\ IsStrList(GetKey(d, "attachments"))
    THEN [ok |-> TRUE, success |-> GetKey(d, "success").b,
          result |-> GetKey(d, "result"), attachments |-> GetKey(d, "attachments")]
    ELSE [ok |-> FALSE, success |-> FALSE, result |-> JNull, attachments |-> JList(<<>>)]

(***************************************************************************)
(* ExecutionAgent._auto_execute_operations.                                *)
(***************************************************************************)
SANDBOX_WORKDIR == "/home/runner/workspace/sandbox_workspace"

\* What one call on the sandbox may do: return a ToolResult with success
\* true, return one with success false, or raise.
SandboxOutcomes == {"ok", "fail", "raise"}
SandboxFailMessage == "failed"
SandboxRaiseMessage == "sandbox error"

IsIterable(v) == v.t \in {"list", "str", "obj"}

\* The values a for loop over v takes.
IterItems(v) ==
    CASE v.t = "list" -> v.items
      [] v.t = "str"  -> [i \in 1..Len(v.s) |-> JStr(SubSeq(v.s, i, i))]
      [] v.t = "obj"  -> [i \in 1..Len(v.pairs) |-> JStr(v.pairs[i].k)]

\* str(e) of the AttributeError raised by v.attr on a value without it.
AttributeErrorText(v, attr) ==
    "'" \o PyTypeName(v) \o "' object has no attribute '" \o attr \o "'"

IsStrEq(v, s) == v.t = "str" /\ v.s = s

\* One entry of file_operations (lines 74-94); acc is the loop's state: the
\* results so far, the sandbox calls so far, the binding of the local `path`
\* and whether an exception escaped.
FileOpStep(op, outcome, acc) ==
    IF ~IsDict(op)
    THEN \* op.get raises AttributeError; the handler formats `path`
         IF acc.bound
         THEN [acc EXCEPT !.results = Append(@, "File operation failed for "
                              \o PyStr(acc.path) \o ": " \o AttributeErrorText(op, "get"))]
         ELSE [acc EXCEPT !.raised = TRUE]
    ELSE LET action == PyDictGet(op, "action", JStr("write"))
             path == PyDictGet(op, "path", JStr(""))
             content == PyDictGet(op, "content", JStr(""))
             bound == [acc EXCEPT !.path = path, !.bound = TRUE]
             call == [op |-> "file_write", file |-> path, content |-> content,
                      append |-> IsStrEq(action, "append")]
             called == [bound EXCEPT !.calls = Append(@, call)]
         IN  IF ~PyTruthy(path) \/ ~PyTruthy(content)
             THEN bound
             ELSE CASE outcome = "ok" ->
                        [called EXCEPT !.results = Append(@, "File " \o PyStr(action)
                              \o " to " \o PyStr(path) \o ": success")]
                    [] outcome = "fail" ->
                        [called EXCEPT !.results = Append(@, "File " \o PyStr(action)
                              \o " to " \o PyStr(path) \o ": " \o SandboxFailMessage)]
                    [] outcome = "raise" ->
                        [called EXCEPT !.results = Append(@, "File operation failed for "
                              \o PyStr(path) \o ": " \o SandboxRaiseMessage)]

\* Mutant of FileOpsLoop: the loop ends after its first entry.
FileOpsLoop_firstOnly(ops, outs, i, acc) ==
    IF Len(ops) = 0 THEN acc ELSE FileOpStep(ops[1], outs[1], acc)

RECURSIVE FileOpsLoop(_, _, _, _)
FileOpsLoop(ops, outs, i, acc) ==
    IF i > Len(ops) \/ acc.raised THEN acc
    ELSE FileOpsLoop(ops, outs, i + 1, FileOpStep(ops[i], outs[i], acc))

\* One entry of shell_commands (lines 99-115); base counts the sandbox calls
\* made before this invocation, so that each shell id is a fresh one.
ShellCmdStep(cmd, outcome, base, acc) ==
    IF ~IsDict(cmd)
    THEN [acc EXCEPT !.results = Append(@, "Shell command failed: "
                         \o AttributeErrorText(cmd, "get"))]
    ELSE LET command == PyDictGet(cmd, "command", JStr(""))
             exec_dir == PyDictGet(cmd, "exec_dir", JStr("/home/ubuntu"))
         IN  IF ~PyTruthy(command) THEN acc
             ELSE IF exec_dir.t # "str"
             THEN [acc EXCEPT !.results = Append(@, "Shell command failed: "
                         \o AttributeErrorText(exec_dir, "startswith"))]
             ELSE LET dir == IF StartsWithAt(exec_dir.s, 1, "/home/ubuntu")
                             THEN SANDBOX_WORKDIR \o
                                  SubSeq(exec_dir.s, Len("/home/ubuntu") + 1, Len(exec_dir.s))
                             ELSE exec_dir.s
                      call == [op |-> "exec_command", shell_id |-> base + Len(acc.calls) + 1,
                               exec_dir |-> dir, command |-> command]
                      called == [acc EXCEPT !.calls = Append(@, call)]
                  IN  CASE outcome = "ok" ->
                             [called EXCEPT !.results = Append(@, "Shell command '"
                                   \o PyStr(command) \o "': success")]
                        [] outcome = "fail" ->
                             [called EXCEPT !.results = Append(@, "Shell command '"
                                   \o PyStr(command) \o "': " \o SandboxFailMessage)]
                        [] outcome = "raise" ->
                             [called EXCEPT !.results = Append(@, "Shell command failed: "
                                   \o SandboxRaiseMessage)]

RECURSIVE ShellCmdsLoop(_, _, _, _, _)
ShellCmdsLoop(cmds, outs, i, base, acc) ==
    IF i > Len(cmds) \/ acc.raised THEN acc
    ELSE ShellCmdsLoop(cmds, outs, i + 1, base, ShellCmdStep(cmds[i], outs[i], base, acc))

\* The entries a loop of _auto_execute_operations would visit for key.
OpsOf(parsed_response, key) ==
    LET v == PyDictGet(parsed_response, key, JList(<<>>))
    IN  IF IsIterable(v) THEN IterItems(v) ELSE <<>>

\* The entries that reach the sandbox call (lines 82 and 110).
FileOpCalls(op) ==
    /\ IsDict(op)
    /\ PyTruthy(PyDictGet(op, "path", JStr("")))
    /\ PyTruthy(PyDictGet(op, "content", JStr("")))
ShellCmdCalls(cmd) ==
    /\ IsDict(cmd)
    /\ PyTruthy(PyDictGet(cmd, "command", JStr("")))
    /\ PyDictGet(cmd, "exec_dir", JStr("/home/ubuntu")).t = "str"

\* What the sandbox does for each of the first n entries: an entry that makes
\* no call has no outcome to choose ("ok" stands for it).
OutcomesFor(entries, n, Calls(_)) ==
    {outs \in [1..n -> SandboxOutcomes] :
        \A i \in 1..n : ~Calls(entries[i]) => outs[i] = "ok"}

\* Mutant of AutoExecuteOperations: without a sandbox the batch raises.
AutoExecuteOperations_needsSandbox(parsed_response, sb, fouts, souts, base) ==
    [results |-> <<>>, calls |-> <<>>, raised |-> ~sb, path |-> JNull, bound |-> FALSE]

\* _auto_execute_operations(parsed_response): fouts and souts give the
\* sandbox's outcome for each file and shell entry.  The result holds the
\* returned list, the sandbox calls made, and whether an exception escaped.
AutoExecuteOperations(parsed_response, sb, fouts, souts, base) ==
    LET file_ops == PyDictGet(parsed_response, "file_operations", JList(<<>>))
        shell_cmds == PyDictGet(parsed_response, "shell_commands", JList(<<>>))
        acc0 == [results |-> <<>>, calls |-> <<>>, raised |-> FALSE,
                 path |-> JNull, bound |-> FALSE]
        acc1 == IF PyTruthy(file_ops) /\ sb
                THEN IF IsIterable(file_ops)
                     THEN FileOpsLoop(IterItems(file_ops), fouts, 1, acc0)
                     ELSE [acc0 EXCEPT !.raised = TRUE]
                ELSE acc0
    IN  IF acc1.raised THEN acc1
        ELSE IF PyTruthy(shell_cmds) /\ sb
        THEN IF IsIterable(shell_cmds)
             THEN ShellCmdsLoop(IterItems(shell_cmds), souts, 1, base, acc1)
             ELSE [acc1 EXCEPT !.raised = TRUE]
        ELSE acc1

(***************************************************************************)
(* ExecutionAgent.execute_step.                                            *)
(***************************************************************************)
AskUserArgs == JObj(<<KV("text", JStr("Which file?"))>>)
ShellArgs == JObj(<<KV("command", JStr("ls"))>>)

ErrorEvents == {ErrorEvent("boom")}
MessageEvents == {MessageEvent(JStr(a)) : a \in AnswerTexts}
AskUserCallingEvents ==
    {ToolEvent("message_ask_user", "CALLING", args) : args \in {AskUserArgs, JObj(<<>>)}}
AskUserCalledEvents == {ToolEvent("message_ask_user", "CALLED", AskUserArgs)}
\* Events execute_step has no rule for: other tools' ToolEvents, DoneEvent,
\* WaitEvent.
OtherEvents ==
    {ToolEvent("shell_exec", st, ShellArgs) : st \in {"CALLING", "CALLED"}}
        \cup {DoneEvent, WaitEvent}

\* Mutant of WrapNonDict: the value is stringified whatever its truth value.
WrapNonDict_alwaysStr(parsed, message) ==
    JObj(<<KV("success", JBool(TRUE)), KV("result", JStr(PyStr(parsed))),
           KV("attachments", JList(<<>>))>>)

\* Lines 139-143: a parsed value that is not a dict is wrapped.
WrapNonDict(parsed, message) ==
    JObj(<<KV("success", JBool(TRUE)),
           KV("result", IF PyTruthy(parsed) THEN JStr(PyStr(parsed)) ELSE JStr(message)),
           KV("attachments", JList(<<>>))>>)

\* Mutant of WrapRaw: a parse failure is reported as an unsuccessful step.
WrapRaw_unsuccessful(message) ==
    JObj(<<KV("success", JBool(FALSE)), KV("result", JStr(message)),
           KV("attachments", JList(<<>>))>>)

\* Lines 146-150: the parser raised, the text itself is the result.
WrapRaw(message) ==
    JObj(<<KV("success", JBool(TRUE)), KV("result", JStr(message)),
           KV("attachments", JList(<<>>))>>)

\* Lines 135-150: parsed_response for the text of a MessageEvent.
ParsedResponse(message) ==
    LET p == JsonParserParse(message)
    IN  IF p.ok
        THEN IF IsDict(p.v) THEN p.v ELSE WrapNonDict(p.v, message)
        ELSE WrapRaw(message)

\* Mutant of TakeValidated: success is forced as in the fallback branch.
TakeValidated_forcedSuccess(st, new_step) ==
    [st EXCEPT !.success = TRUE, !.result = new_step.result,
               !.attachments = new_step.attachments]

\* Lines 158-160: the step takes the validated fields.
TakeValidated(st, new_step) ==
    [st EXCEPT !.success = new_step.success, !.result = new_step.result,
               !.attachments = new_step.attachments]

\* Lines 163-165: validation failed, the keys are read directly.
TakeFallback(st, parsed_response, message) ==
    [st EXCEPT !.success = TRUE,
               !.result = PyDictGet(parsed_response, "result", JStr(message)),
               !.attachments = PyDictGet(parsed_response, "attachments", JList(<<>>))]

\* Lines 156-165.
UpdateStep(st, parsed_response, message) ==
    LET new_step == StepModelValidate(parsed_response)
    IN  IF new_step.ok THEN TakeValidated(st, new_step)
        ELSE TakeFallback(st, parsed_response, message)

\* Lines 166-168: what the MessageEvent branch yields.
MessageBranchEmits(st) ==
    IF PyTruthy(st.result) THEN <<StepEvent("COMPLETED"), MessageEvent(st.result)>>
    ELSE <<StepEvent("COMPLETED")>>

\* Line 173: what the CALLING sub-state of message_ask_user yields.
AskUserCallingEmits(e) ==
    <<MessageEvent(PyDictGet(e.function_args, "text", JStr("")))>>

\* Mutant of PcAfterAskUserCalled: the return after the WaitEvent is missing.
PcAfterAskUserCalled_noReturn == "running"

\* Lines 175-176: the CALLED sub-state yields WaitEvent and returns.
AskUserCalledEmits == <<WaitEvent>>
PcAfterAskUserCalled == "waiting"

\* Mutant of StatusAfterStream: the assignment after the loop is missing.
StatusAfterStream_kept(status) == status

\* Line 179: the status once the underlying stream is exhausted.
StatusAfterStream(status) == "COMPLETED"

MayConsume == pc = "running" /\ Len(consumed) < MaxEvents

\* Lines 120-127.
Start ==
    /\ pc = "start"
    /\ step' = [step EXCEPT !.status = "RUNNING"]
    /\ emitted' = Append(emitted, StepEvent("STARTED"))
    /\ pc' = "running"
    /\ UNCHANGED <<sandbox, consumed, exec_results, sandbox_calls, askVars, shellVars, fileVars, encodeVars>>

\* Mutant of OnErrorEvent: the generator ends at the first ErrorEvent.
OnErrorEvent_halts ==
    /\ MayConsume
    /\ \E e \in ErrorEvents :
        /\ consumed' = Append(consumed, e)
        /\ step' = [step EXCEPT !.status = "FAILED", !.error = JStr(e.error)]
        /\ emitted' = Append(emitted, StepEvent("FAILED"))
    /\ pc' = "exhausted"
    /\ UNCHANGED <<sandbox, exec_results, sandbox_calls, askVars, shellVars, fileVars, encodeVars>>

\* Lines 129-132.
OnErrorEvent ==
    /\ MayConsume
    /\ \E e \in ErrorEvents :
        /\ consumed' = Append(consumed, e)
        /\ step' = [step EXCEPT !.status = "FAILED", !.error = JStr(e.error)]
        /\ emitted' = Append(emitted, StepEvent("FAILED"))
    /\ UNCHANGED <<pc, sandbox, exec_results, sandbox_calls, askVars, shellVars, fileVars, encodeVars>>

\* Lines 133-169.
OnMessageEvent ==
    /\ MayConsume
    /\ \E e \in MessageEvents :
        LET message == e.message.s
            parsed_response == ParsedResponse(message)
            nf == IF sandbox THEN Len(OpsOf(parsed_response, "file_operations")) ELSE 0
            ns == IF sandbox THEN Len(OpsOf(parsed_response, "shell_commands")) ELSE 0
        IN  \E fouts \in OutcomesFor(OpsOf(parsed_response, "file_operations"), nf, FileOpCalls),
               souts \in OutcomesFor(OpsOf(parsed_response, "shell_commands"), ns, ShellCmdCalls) :
              LET auto == AutoExecuteOperations(parsed_response, sandbox, fouts, souts,
                                                Len(sandbox_calls))
                  completed == [step EXCEPT !.status = "COMPLETED"]
                  updated == UpdateStep(completed, parsed_response, message)
              IN  /\ consumed' = Append(consumed, e)
                  /\ sandbox_calls' = sandbox_calls \o auto.calls
                  /\ IF auto.raised
                     THEN /\ step' = completed
                          /\ pc' = "crashed"
                          /\ UNCHANGED <<emitted, exec_results>>
                     ELSE /\ step' = updated
                          /\ exec_results' = auto.results
                          /\ emitted' = emitted \o MessageBranchEmits(updated)
                          /\ pc' = pc
    /\ UNCHANGED <<sandbox, askVars, shellVars, fileVars, encodeVars>>

\* Lines 170-173 and 177.
OnAskUserCalling ==
    /\ MayConsume
    /\ \E e \in AskUserCallingEvents :
        /\ consumed' = Append(consumed, e)
        /\ emitted' = emitted \o AskUserCallingEmits(e)
    /\ UNCHANGED <<pc, step, sandbox, exec_results, sandbox_calls, askVars, shellVars, fileVars, encodeVars>>

\* Lines 174-176.
OnAskUserCalled ==
    /\ MayConsume
    /\ \E e \in AskUserCalledEvents :
        /\ consumed' = Append(consumed, e)
        /\ emitted' = emitted \o AskUserCalledEmits
    /\ pc' = PcAfterAskUserCalled
    /\ UNCHANGED <<step, sandbox, exec_results, sandbox_calls, askVars, shellVars, fileVars, encodeVars>>

\* Mutant of OnOtherEvent: the event is consumed and not yielded.
OnOtherEvent_dropped ==
    /\ MayConsume
    /\ \E e \in OtherEvents : consumed' = Append(consumed, e)
    /\ UNCHANGED <<pc, step, sandbox, emitted, exec_results, sandbox_calls, askVars, shellVars, fileVars, encodeVars>>

\* Line 178: any other event is yielded as it came.
OnOtherEvent ==
    /\ MayConsume
    /\ \E e \in OtherEvents :
        /\ consumed' = Append(consumed, e)
        /\ emitted' = Append(emitted, e)
    /\ UNCHANGED <<pc, step, sandbox, exec_results, sandbox_calls, askVars, shellVars, fileVars, encodeVars>>

\* Line 179: self.execute is exhausted.
StreamExhausted ==
    /\ pc = "running"
    /\ step' = [step EXCEPT !.status = StatusAfterStream(step.status)]
    /\ pc' = "exhausted"
    /\ UNCHANGED <<sandbox, consumed, emitted, exec_results, sandbox_calls, askVars, shellVars, fileVars, encodeVars>>

\* Line 128: self.execute raises (the Model Client's retries are exhausted);
\* the exception leaves execute_step.
UpstreamRaises ==
    /\ pc = "running"
    /\ pc' = "raised"
    /\ UNCHANGED <<step, sandbox, consumed, emitted, exec_results, sandbox_calls, askVars, shellVars, fileVars, encodeVars>>

(***************************************************************************)
(* LocalSandbox: logical paths and the files behind them.                  *)
(***************************************************************************)
\* Logical paths handed to the file operations: below the home prefix, below
\* a sibling of it, elsewhere, relative; and the home directory itself.
FilePaths == {"/home/ubuntu/a", "/home/ubuntu2/a", "/etc/a", "a"}
DirPaths == {"/home/ubuntu"}
LogicalPaths == FilePaths \cup DirPaths

\* os.path.join(a, b) for a relative b and an a without a trailing slash.
OsPathJoin(a, b) == a \o "/" \o b

\* Lines 315-320: _resolve_path. str.replace(old, new, 1) on a string that
\* starts with old replaces that prefix.
ResolvePath(path) ==
    IF StartsWithAt(path, 1, "/home/ubuntu")
    THEN SANDBOX_WORKDIR \o SubSeq(path, Len("/home/ubuntu") + 1, Len(path))
    ELSE IF StartsWithAt(path, 1, "/") THEN path
    ELSE OsPathJoin(SANDBOX_WORKDIR, path)

\* os.path.dirname
DirName(p) ==
    LET idx == {i \in 1..Len(p) : SubSeq(p, i, i) = "/"}
        last == CHOOSE i \in idx : \A j \in idx : j <= i
    IN  IF idx = {} THEN "" ELSE IF last = 1 THEN "/" ELSE SubSeq(p, 1, last - 1)

RealFiles == {ResolvePath(p) : p \in FilePaths}
\* Directories the operations may make or remove; every other directory of a
\* target (/etc) exists throughout.
TrackedDirs == {DirName(t) : t \in RealFiles} \cap
                 {SANDBOX_WORKDIR, SANDBOX_WORKDIR \o "2"}
NoFile == [exists |-> FALSE, content |-> ""]
File(content) == [exists |-> TRUE, content |-> content]

\* Line 88: the constructor makes the sandbox root.
FilesIdle ==
    /\ files = [t \in RealFiles |-> NoFile]
    /\ dirs = {SANDBOX_WORKDIR}
    /\ file_op = [op |-> "none"]

\* The encoder has not been called.
EncodeIdle ==
    /\ messages = <<>>
    /\ api_messages = JNull

\* No ask call is in progress.
AskIdle ==
    /\ ask_pc = "idle"
    /\ ask_args = [tools |-> JNull, tool_choice |-> JNull, response_format |-> JNull]
    /\ attempt = 0
    /\ ask_log = <<>>
    /\ outcomes = <<>>
    /\ ask_result = [kind |-> "none"]

InitStep ==
    /\ pc = "start"
    /\ step = NewStep
    /\ sandbox \in BOOLEAN
    /\ consumed = <<>>
    /\ emitted = <<>>
    /\ exec_results = <<>>
    /\ sandbox_calls = <<>>
    /\ AskIdle
    /\ FilesIdle
    /\ EncodeIdle
    /\ ShellIdle

NextStep ==
    \/ Start
    \/ OnErrorEvent
    \/ OnMessageEvent
    \/ OnAskUserCalling
    \/ OnAskUserCalled
    \/ OnOtherEvent
    \/ StreamExhausted
    \/ UpstreamRaises

SpecStep == InitStep /\ [][NextStep]_vars

(***************************************************************************)
(* Properties of execute_step (checked under SpecStep).                    *)
(***************************************************************************)
TerminalStatus == {"COMPLETED", "FAILED"}

IsAskUser(e, st) ==
    /\ e.type = "ToolEvent"
    /\ e.function_name = "message_ask_user"
    /\ e.status = st

IsStepEvent(e, st) == e.type = "StepEvent" /\ e.status = st

\* The positions of seq whose event has the given type.
OfType(seq, ty) == {i \in 1..Len(seq) : seq[i].type = ty}

\* The last consumed event is a MessageEvent.
AnswerHandled == Len(consumed) > 0 /\ consumed[Len(consumed)].type = "MessageEvent"
LastAnswer == consumed[Len(consumed)].message.s

\* C1 (as claimed): within one invocation step.status only moves forward:
\* once COMPLETED or FAILED it is never changed to another status, and it
\* never returns to PENDING.
C1_StatusMonotonic ==
    [][/\ step.status \in TerminalStatus => step'.status = step.status
       /\ step.status = "RUNNING" => step'.status # "PENDING"]_vars

\* C2 (as claimed): when the underlying stream is exhausted, a status that is
\* already terminal is kept; a FAILED step is still FAILED afterwards.
C2_TerminalKeptAtExhaustion ==
    [][(pc' = "exhausted" /\ step.status \in TerminalStatus)
          => step'.status = step.status]_vars

\* C3 (as claimed): when the emitted sequence has ended, by exhaustion of the
\* underlying stream or at the WaitEvent, step.status is COMPLETED or FAILED.
C3_TerminalAtEveryEnd ==
    pc \in {"exhausted", "waiting"} => step.status \in TerminalStatus

\* C3 (amended): at exhaustion of the underlying stream step.status is
\* COMPLETED or FAILED; at the WaitEvent it is terminal exactly when an
\* ErrorEvent or MessageEvent was processed before, and RUNNING otherwise.
C3_TerminalAtExhaustion ==
    /\ pc = "exhausted" => step.status \in TerminalStatus
    /\ pc = "waiting" =>
         IF OfType(consumed, "ErrorEvent") \cup OfType(consumed, "MessageEvent") = {}
         THEN step.status = "RUNNING"
         ELSE step.status \in TerminalStatus

C3_Witness ==
    /\ pc = "waiting"
    /\ step.status = "RUNNING"
    /\ emitted[Len(emitted)].type = "WaitEvent"

\* The emitted sequence of an ask-user call: exactly one MessageEvent, with
\* the text argument of the CALLING event, later exactly one WaitEvent, and
\* the WaitEvent is the last event.
AskUserSequence(em, calling) ==
    LET msgs == OfType(em, "MessageEvent")
        waits == OfType(em, "WaitEvent")
    IN  /\ Cardinality(msgs) = 1
        /\ Cardinality(waits) = 1
        /\ \A m \in msgs : \A w \in waits :
             /\ m < w
             /\ w = Len(em)
             /\ em[m].message = PyDictGet(calling.function_args, "text", JStr(""))

\* Once the CALLED event of message_ask_user was taken, nothing more is
\* consumed or emitted.
NothingAfterCalled ==
    (\E i \in 1..Len(consumed) : IsAskUser(consumed[i], "CALLED"))
        => (consumed' = consumed /\ emitted' = emitted)

\* C4 (as claimed): for an upstream stream in which message_ask_user is
\* called (one CALLING, then CALLED, no MessageEvent before them) the emitted
\* sequence holds exactly one MessageEvent with the text, later exactly one
\* WaitEvent, nothing after it, and nothing upstream is consumed afterwards.
C4_AskUserAnyPrefix ==
    [][/\ NothingAfterCalled
       /\ \A n \in 2..Len(consumed') : \A c \in 1..(n - 1) :
            (/\ n = Len(consumed')
             /\ IsAskUser(consumed'[n], "CALLED")
             /\ IsAskUser(consumed'[c], "CALLING")
             /\ \A i \in 1..(n - 1) : IsAskUser(consumed'[i], "CALLING") => i = c
             /\ OfType(consumed', "MessageEvent") = {})
                => AskUserSequence(emitted', consumed'[c])]_vars

\* C4 (amended): the same, for streams that have no MessageEvent and no
\* WaitEvent before the CALLING and CALLED events.
C4_AskUserCleanPrefix ==
    [][/\ NothingAfterCalled
       /\ \A n \in 2..Len(consumed') : \A c \in 1..(n - 1) :
            (/\ n = Len(consumed')
             /\ IsAskUser(consumed'[n], "CALLED")
             /\ IsAskUser(consumed'[c], "CALLING")
             /\ \A i \in 1..(n - 1) : IsAskUser(consumed'[i], "CALLING") => i = c
             /\ OfType(consumed', "MessageEvent") = {}
             /\ OfType(consumed', "WaitEvent") = {})
                => AskUserSequence(emitted', consumed'[c])]_vars

C4_Witness ==
    /\ Len(consumed) = 3
    /\ consumed[1].type = "ToolEvent" /\ consumed[1].function_name = "shell_exec"
    /\ IsAskUser(consumed[2], "CALLING")
    /\ IsAskUser(consumed[3], "CALLED")
    /\ pc = "waiting"
    /\ emitted[Len(emitted)].type = "WaitEvent"

\* The terminal answer schema: an object with success: bool, result: text,
\* attachments: [text], and optionally file_operations and shell_commands,
\* each a list of objects with text values.
IsTextObject(v) ==
    /\ v.t = "obj"
    /\ \A i \in 1..Len(v.pairs) : v.pairs[i].v.t = "str"
IsObjectList(v) ==
    /\ v.t = "list"
    /\ \A i \in 1..Len(v.items) : IsTextObject(v.items[i])
MatchesAnswerSchema(v) ==
    /\ v.t = "obj"
    /\ HasKey(v, "success") /\ GetKey(v, "success").t = "bool"
    /\ HasKey(v, "result") /\ GetKey(v, "result").t = "str"
    /\ HasKey(v, "attachments") /\ IsStrList(GetKey(v, "attachments"))
    /\ HasKey(v, "file_operations") => IsObjectList(GetKey(v, "file_operations"))
    /\ HasKey(v, "shell_commands") => IsObjectList(GetKey(v, "shell_commands"))

\* C5: after a terminal answer that parses to an object matching the schema,
\* step.success, step.result and step.attachments equal the answer's fields
\* and step.status is COMPLETED.
C5_SchemaAnswerTaken ==
    AnswerHandled =>
        LET p == JsonParserParse(LastAnswer)
        IN  (p.ok /\ MatchesAnswerSchema(p.v)) =>
              /\ step.success = GetKey(p.v, "success").b
              /\ step.result = GetKey(p.v, "result")
              /\ step.attachments = GetKey(p.v, "attachments")
              /\ step.status = "COMPLETED"

C5_Witness ==
    /\ AnswerHandled
    /\ LastAnswer = AnsFailed
    /\ step.success = FALSE
    /\ step.result = JStr("bad")
    /\ step.attachments = JList(<<JStr("/a")>>)

\* C6: after a terminal answer on which the parser fails, step.result is the
\* raw text, step.success is true, step.attachments is empty, nothing was
\* raised and no StepEvent(FAILED) was emitted for it.
C6_UnparsableAnswerKept ==
    AnswerHandled =>
        (~JsonParserParse(LastAnswer).ok =>
              /\ step.result = JStr(LastAnswer)
              /\ step.success = TRUE
              /\ step.attachments = JList(<<>>)
              /\ step.status = "COMPLETED"
              /\ pc # "crashed"
              /\ Cardinality({i \in 1..Len(emitted) : IsStepEvent(emitted[i], "FAILED")})
                    = Cardinality(OfType(consumed, "ErrorEvent")))

C6_Witness ==
    /\ AnswerHandled
    /\ LastAnswer = AnsProse
    /\ step.result = JStr(AnsProse)
    /\ emitted[Len(emitted)] = MessageEvent(JStr(AnsProse))

\* C7 (as claimed): after a terminal answer that parses to a value that is
\* not an object, falsy ones included, the step has success true, the
\* stringified value as result and no attachments.
C7_NonObjectStringified ==
    AnswerHandled =>
        LET p == JsonParserParse(LastAnswer)
        IN  (p.ok /\ ~IsDict(p.v)) =>
              /\ step.success = TRUE
              /\ step.result = JStr(PyStr(p.v))
              /\ step.attachments = JList(<<>>)

\* C7 (amended): the result is the stringified value when the value is
\* truthy, and the raw message text when it is falsy (0, false, null, "", []).
C7_NonObjectWrapped ==
    AnswerHandled =>
        LET p == JsonParserParse(LastAnswer)
        IN  (p.ok /\ ~IsDict(p.v)) =>
              /\ step.success = TRUE
              /\ step.result = IF PyTruthy(p.v) THEN JStr(PyStr(p.v)) ELSE JStr(LastAnswer)
              /\ step.attachments = JList(<<>>)

C7_Witness ==
    /\ AnswerHandled
    /\ LastAnswer = "null"
    /\ step.result = JStr("null")
    /\ step.success = TRUE

(***************************************************************************)
(* Auto-execution and the ErrorEvent rule, seen one step at a time.        *)
(***************************************************************************)
\* This step consumes one upstream event of the given type.
ConsumesA(ty) ==
    /\ Len(consumed') = Len(consumed) + 1
    /\ consumed'[Len(consumed')].type = ty
ConsumedEvent == consumed'[Len(consumed')]
\* The parsed answer of the MessageEvent this step consumes, its two lists,
\* and the sandbox calls this step makes.
NewAnswer == ParsedResponse(ConsumedEvent.message.s)
NewFileEntries == OpsOf(NewAnswer, "file_operations")
NewShellEntries == OpsOf(NewAnswer, "shell_commands")
NewCalls == SubSeq(sandbox_calls', Len(sandbox_calls) + 1, Len(sandbox_calls'))

IsFileWrite(c) == c.op = "file_write"
IsFileOutcome(r) == StartsWithAt(r, 1, "File ")
IsShellOutcome(r) == StartsWithAt(r, 1, "Shell ")
\* An entry the loop passes over without an outcome: a mapping whose path or
\* content (file) or command (shell) is empty.
FileEntrySkipped(op) ==
    IsDict(op) /\ (~PyTruthy(PyDictGet(op, "path", JStr("")))
                     \/ ~PyTruthy(PyDictGet(op, "content", JStr(""))))
ShellEntrySkipped(cmd) == IsDict(cmd) /\ ~PyTruthy(PyDictGet(cmd, "command", JStr("")))
FileEntryCounts(op) == ~FileEntrySkipped(op)
ShellEntryCounts(cmd) == ~ShellEntrySkipped(cmd)
\* What a sandbox call was made for: the path written or the command run.
CallKey(c) == IF c.op = "file_write" THEN c.file ELSE c.command
KeysOfCalls(cs) == [i \in 1..Len(cs) |-> CallKey(cs[i])]
ExpectedKeys(fops, cmds) ==
    LET f == SelectSeq(fops, FileOpCalls)
        c == SelectSeq(cmds, ShellCmdCalls)
    IN  [i \in 1..Len(f) |-> GetKey(f[i], "path")]
          \o [i \in 1..Len(c) |-> GetKey(c[i], "command")]

\* C22: when file_operations holds mappings, some with an empty path or
\* content and some valid, auto-execution writes once per valid entry (to
\* that entry's path, in order) and records one file outcome per valid entry;
\* the empty entries cause no write and no outcome.
C22_SkippedEntriesSilent ==
    [][(ConsumesA("MessageEvent") /\ sandbox
          /\ Len(NewFileEntries) > 0
          /\ \A i \in 1..Len(NewFileEntries) : IsDict(NewFileEntries[i]))
        => LET valid == SelectSeq(NewFileEntries, FileOpCalls)
               writes == SelectSeq(NewCalls, IsFileWrite)
               recorded == SelectSeq(exec_results', IsFileOutcome)
           IN  /\ Len(writes) = Len(valid)
               /\ Len(recorded) = Len(valid)
               /\ \A k \in 1..Len(writes) : writes[k].file = GetKey(valid[k], "path")]_vars

\* An answer with two empty entries and one valid entry was executed: one
\* write, one outcome.
C22_Witness ==
    /\ sandbox
    /\ consumed = <<MessageEvent(JStr(AnsSkips))>>
    /\ Len(sandbox_calls) = 1
    /\ sandbox_calls[1].file = JStr("/home/ubuntu/d")
    /\ Len(exec_results) = 1

\* C23 (as claimed): auto-execution never fails as a batch: whatever the
\* parsed answer and whatever the sandbox does, no exception escapes into
\* execute_step, and every entry that is not skipped (malformed ones
\* included) yields one recorded outcome.
C23_BatchNeverFails ==
    [][(ConsumesA("MessageEvent") /\ sandbox)
        => /\ pc' # "crashed"
           /\ Len(exec_results') = Len(SelectSeq(NewFileEntries, FileEntryCounts))
                                     + Len(SelectSeq(NewShellEntries, ShellEntryCounts))]_vars

C29_ListOrderNoAbort ==
    [][(ConsumesA("MessageEvent") /\ sandbox)
        => /\ KeysOfCalls(NewCalls) = ExpectedKeys(NewFileEntries, NewShellEntries)
           /\ pc' # "crashed" =>
                \A i, j \in 1..Len(exec_results') :
                    i < j => ~(IsShellOutcome(exec_results'[i])
                                 /\ IsFileOutcome(exec_results'[j]))]_vars

\* C30: with no sandbox attached, no sandbox call is made and no outcome is
\* recorded, nothing escapes auto-execution, and an answer that lists
\* operations completes the step with its success, result and attachments.
C30_NoSandboxNoOp ==
    ~sandbox =>
        /\ sandbox_calls = <<>>
        /\ exec_results = <<>>
        /\ pc # "crashed"
        /\ (AnswerHandled
              /\ LastAnswer \in {AnsOps, AnsBadOps, AnsSkips, AnsBadFirst, AnsBadLater})
            => /\ step.status = "COMPLETED"
               /\ step.success = TRUE
               /\ step.result = JStr("w")
               /\ step.attachments = JList(<<>>)
               /\ IsStepEvent(emitted[Len(emitted) - 1], "COMPLETED")

\* An answer whose first file entry is not a mapping completed the step of an
\* engine without sandbox.
C30_Witness ==
    /\ ~sandbox
    /\ consumed = <<MessageEvent(JStr(AnsBadFirst))>>
    /\ step.status = "COMPLETED"
    /\ step.result = JStr("w")
    /\ sandbox_calls = <<>>

\* The events this step yields.
NewEmits == SubSeq(emitted', Len(emitted) + 1, Len(emitted'))

\* C31 (as claimed): a terminal answer that parses to an object failing Step
\* validation does not fail the step: the status is COMPLETED, the result is
\* the object's result key or the raw text, the attachments are its
\* attachments key or the empty list, and StepEvent(COMPLETED) is emitted.
C31_ValidationFallback ==
    [][ConsumesA("MessageEvent") =>
          LET text == ConsumedEvent.message.s
              p == JsonParserParse(text)
          IN  (p.ok /\ IsDict(p.v) /\ ~StepModelValidate(p.v).ok) =>
                /\ step'.status = "COMPLETED"
                /\ step'.result = PyDictGet(p.v, "result", JStr(text))
                /\ step'.attachments = PyDictGet(p.v, "attachments", JList(<<>>))
                /\ \E i \in 1..Len(NewEmits) : IsStepEvent(NewEmits[i], "COMPLETED")]_vars

\* An upstream event execute_step has no rule for.
IsOther(e) ==
    /\ e.type \notin {"ErrorEvent", "MessageEvent"}
    /\ ~(e.type = "ToolEvent" /\ e.function_name = "message_ask_user")
IsMessageEvent(e) == e.type = "MessageEvent"
\* An emitted event that is not one execute_step makes itself at this point.
NotAStepEvent(e) == e.type # "StepEvent"

\* C32: events are consumed one at a time in arrival order; an event without
\* a rule is yielded as it came, once, by the step that consumed it; for a
\* terminal MessageEvent the only MessageEvent yielded is the one that carries
\* step.result, and an ask-user ToolEvent is replaced by a MessageEvent with
\* its text (CALLING) or by a WaitEvent (CALLED).
C32_OthersForwardedInOrder ==
    [][/\ consumed' # consumed =>
            /\ Len(consumed') = Len(consumed) + 1
            /\ SubSeq(consumed', 1, Len(consumed)) = consumed
       /\ emitted' # emitted => SubSeq(emitted', 1, Len(emitted)) = emitted
       /\ Len(consumed') = Len(consumed) + 1 =>
            LET e == ConsumedEvent
            IN  /\ IsOther(e) => NewEmits = <<e>>
                /\ e.type = "MessageEvent" =>
                     /\ \A i \in 1..Len(NewEmits) :
                          NewEmits[i].type \in {"StepEvent", "MessageEvent"}
                     /\ \A i \in 1..Len(NewEmits) :
                          IsMessageEvent(NewEmits[i]) => NewEmits[i].message = step'.result
                /\ IsAskUser(e, "CALLING") =>
                     NewEmits = <<MessageEvent(PyDictGet(e.function_args, "text", JStr("")))>>
                /\ IsAskUser(e, "CALLED") => NewEmits = <<WaitEvent>>
       /\ consumed' = consumed => Len(SelectSeq(NewEmits, NotAStepEvent)) = 0]_vars

\* Two events without a rule, a terminal answer between them, came out in
\* the order they came in, the answer replaced by the step's events.
C32_Witness ==
    /\ Len(consumed) = 3
    /\ IsOther(consumed[1]) /\ consumed[2] = MessageEvent(JStr(AnsOk)) /\ IsOther(consumed[3])
    /\ consumed[1] # consumed[3]
    /\ emitted = <<StepEvent("STARTED"), consumed[1], StepEvent("COMPLETED"),
                   MessageEvent(JStr("ok")), consumed[3]>>

\* C40 (as claimed): a step whose status is COMPLETED carries no error text.
C40_CompletedHasNoError ==
    step.status = "COMPLETED" => step.error = JNull

(***************************************************************************)
(* The tool-call text protocol: _parse_tool_call_from_text.                *)
(***************************************************************************)
\* A TLA+ string cannot hold the backquote: in the texts of this model the
\* character ~ stands for it, and Fence for the three backquotes of a fence.
Tick == "~"
Fence == Tick \o Tick \o Tick
FenceToolCall == Fence \o "tool_call"
FenceJson == Fence \o "json"

\* Replies of the completion service (message content).
ReplyToolCall ==
    Fence \o "tool_call\n{\"name\": \"shell_exec\", \"arguments\": {\"command\": \"ls\"}}\n" \o Fence
ReplyPlain == "All done."
ReplyNumberBlock == Fence \o "tool_call\n5\n" \o Fence
ReplyNameNotText == Fence \o "tool_call\n{\"name\": 5, \"arguments\": {}}\n" \o Fence
ReplyBrokenBlock == "I will run it.\n" \o Fence \o "tool_call\n{\"name\": \n" \o Fence
ReplyBareNameNotText == "{\"name\": 5, \"arguments\": {}}"
ReplyBareCall == "done. {\"name\": \"file_write\", \"arguments\": {\"path\": \"/a\"}}"

\* The blocks the replies below are made of.
ShellExecJson == "{\"name\": \"shell_exec\", \"arguments\": {\"command\": \"ls\"}}"
FileReadJson == "{\"name\": \"file_read\", \"arguments\": {\"file\": \"/a\"}}"
FileWriteJson == "{\"name\": \"file_write\", \"arguments\": {\"path\": \"/a\"}}"
ToolCallBlock(json) == Fence \o "tool_call\n" \o json \o "\n" \o Fence
JsonToolCallBlock(json) == Fence \o "json tool_call\n" \o json \o "\n" \o Fence
UntaggedBlock(json) == Fence \o "\n" \o json \o "\n" \o Fence

\* Several tool_call blocks in one reply.
ReplyTwoCalls == ToolCallBlock(ShellExecJson) \o "\n" \o ToolCallBlock(FileReadJson)
\* A call in a block of the second, the third kind, with text around it.
ReplyJsonTagged == "Writing.\n" \o JsonToolCallBlock(FileWriteJson)
ReplyUntagged == UntaggedBlock(ShellExecJson) \o "\nthen wait"
\* Unfenced objects whose name is outside the list of tool-name keywords, or
\* holds one of them after its beginning.
ReplyBareFoo == "{\"name\": \"foo\", \"arguments\": {}}"
ReplyBareInfix == "{\"name\": \"run_shell_cmd\", \"arguments\": {}}"
\* An invalid candidate of the first pattern before a valid one of the second.
ReplyBrokenThenJson ==
    Fence \o "tool_call\n{\"name\": \n" \o Fence \o "\n" \o JsonToolCallBlock(ShellExecJson)
ReplyKeylessThenJson ==
    ToolCallBlock("{\"x\": 1}") \o "\n" \o JsonToolCallBlock(ShellExecJson)
ReplyNumberThenJson == ReplyNumberBlock \o "\n" \o JsonToolCallBlock(ShellExecJson)
\* Valid candidates of the second and of the first pattern.
ReplyBothValid == JsonToolCallBlock(FileWriteJson) \o "\n" \o ToolCallBlock(ShellExecJson)

ReplyTexts ==
    {ReplyToolCall, ReplyPlain, ReplyNumberBlock, ReplyNameNotText, ReplyBrokenBlock,
     ReplyBareNameNotText, ReplyBareCall, ReplyTwoCalls, ReplyJsonTagged, ReplyUntagged,
     ReplyBareFoo, ReplyBareInfix, ReplyBrokenThenJson, ReplyKeylessThenJson,
     ReplyNumberThenJson, ReplyBothValid}

\* json.loads(s): the value, or ParseError for json.JSONDecodeError.
JsonLoads(s) ==
    CASE s = "{\"name\": \"shell_exec\", \"arguments\": {\"command\": \"ls\"}}" ->
            ParseOk(JObj(<<KV("name", JStr("shell_exec")),
                           KV("arguments", JObj(<<KV("command", JStr("ls"))>>))>>))
      [] s = "5" -> ParseOk(JInt(5))
      [] s = "{\"name\": 5, \"arguments\": {}}" ->
            ParseOk(JObj(<<KV("name", JInt(5)), KV("arguments", JObj(<<>>))>>))
      [] s = "{\"name\": \"file_write\", \"arguments\": {\"path\": \"/a\"}}" ->
            ParseOk(JObj(<<KV("name", JStr("file_write")),
                           KV("arguments", JObj(<<KV("path", JStr("/a"))>>))>>))
      [] s = FileReadJson ->
            ParseOk(JObj(<<KV("name", JStr("file_read")),
                           KV("arguments", JObj(<<KV("file", JStr("/a"))>>))>>))
      [] s = "{\"name\": \"foo\", \"arguments\": {}}" ->
            ParseOk(JObj(<<KV("name", JStr("foo")), KV("arguments", JObj(<<>>))>>))
      [] s = "{\"name\": \"run_shell_cmd\", \"arguments\": {}}" ->
            ParseOk(JObj(<<KV("name", JStr("run_shell_cmd")), KV("arguments", JObj(<<>>))>>))
      [] s = "{\"x\": 1}" -> ParseOk(JObj(<<KV("x", JInt(1))>>))
      [] s = "{\"command\": \"ls\"}" -> ParseOk(JObj(<<KV("command", JStr("ls"))>>))
      [] s = "{\"path\": \"/a\"}" -> ParseOk(JObj(<<KV("path", JStr("/a"))>>))
      [] s = "{\"file\": \"/a\"}" -> ParseOk(JObj(<<KV("file", JStr("/a"))>>))
      [] s = "{}" -> ParseOk(JObj(<<>>))
      [] OTHER -> ParseError

NoMatch == [found |-> FALSE, text |-> ""]
Match(t) == [found |-> TRUE, text |-> t]

CharAt(s, i) == IF 1 <= i /\ i <= Len(s) THEN SubSeq(s, i, i) ELSE ""
Least(S) == CHOOSE i \in S : \A j \in S : i <= j

\* re.search(r'~~~tool_call\s*\n?(.*?)\n?~~~', text, re.DOTALL), then
\* group(1).strip(): the text between the first ~~~tool_call and the next ~~~.
Pattern1(text) ==
    LET i == Find(text, FenceToolCall, 1)
        p == IF i = 0 THEN 0 ELSE Find(text, Fence, i + Len(FenceToolCall))
    IN  IF i = 0 \/ p = 0 THEN NoMatch
        ELSE Match(Strip(SubSeq(text, i + Len(FenceToolCall), p - 1)))

\* re.search(r'~~~json\s*tool_call\s*\n?(.*?)\n?~~~', text, re.DOTALL), then
\* group(1).strip().
Pattern2Body(text, i) == SkipSpaces(text, i + Len(FenceJson)) + Len("tool_call")
Pattern2(text) ==
    LET starts == {i \in 1..Len(text) :
                     /\ StartsWithAt(text, i, FenceJson)
                     /\ StartsWithAt(text, SkipSpaces(text, i + Len(FenceJson)), "tool_call")
                     /\ Find(text, Fence, Pattern2Body(text, i)) # 0}
    IN  IF starts = {} THEN NoMatch
        ELSE LET b == Pattern2Body(text, Least(starts))
             IN  Match(Strip(SubSeq(text, b, Find(text, Fence, b) - 1)))

\* re.search(r'~~~\s*\n?\s*\{["\']name["\'].*?\}\s*\n?~~~', text, re.DOTALL),
\* then group(0).strip('~').strip(): no group, the braces of the match.
Quotes == {"\"", "'"}
Pattern3Open(text, i) == SkipSpaces(text, i + Len(Fence))
Pattern3Closes(text, q) ==
    {r \in (q + 7)..Len(text) :
        /\ CharAt(text, r) = "}"
        /\ StartsWithAt(text, SkipSpaces(text, r + 1), Fence)}
Pattern3(text) ==
    LET starts == {i \in 1..Len(text) :
                     LET q == Pattern3Open(text, i)
                     IN  /\ StartsWithAt(text, i, Fence)
                         /\ CharAt(text, q) = "{"
                         /\ CharAt(text, q + 1) \in Quotes
                         /\ StartsWithAt(text, q + 2, "name")
                         /\ CharAt(text, q + 6) \in Quotes
                         /\ Pattern3Closes(text, q) # {}}
    IN  IF starts = {} THEN NoMatch
        ELSE LET q == Pattern3Open(text, Least(starts))
             IN  Match(SubSeq(text, q, Least(Pattern3Closes(text, q))))

\* The outcome of a Python expression: a value, or an exception.
Value(v) == [raised |-> FALSE, v |-> v]
Raises(exc) == [raised |-> TRUE, v |-> exc]

\* key in v
PyIn(key, v) ==
    CASE v.t = "obj"  -> Value(HasKey(v, key))
      [] v.t = "list" -> Value(\E i \in 1..Len(v.items) : IsStrEq(v.items[i], key))
      [] v.t = "str"  -> Value(Contains(v.s, key))
      [] OTHER -> Raises("TypeError")

\* "name" in parsed and "arguments" in parsed
HasNameAndArguments(parsed) ==
    LET n == PyIn("name", parsed)
    IN  IF n.raised \/ ~n.v THEN n ELSE PyIn("arguments", parsed)

ToolNameKeywords == <<"shell_", "file_", "browser_", "search_", "message_">>

\* any(keyword in func_name for keyword in [...])
AnyKeywordIn(func_name) ==
    LET first == PyIn(ToolNameKeywords[1], func_name)
    IN  IF first.raised THEN first
        ELSE Value(\E k \in 1..Len(ToolNameKeywords) : PyIn(ToolNameKeywords[k], func_name).v)

DecodeNone == [kind |-> "none"]
DecodeCall(parsed) == [kind |-> "call", parsed |-> parsed]
DecodeRaises(exc) == [kind |-> "raise", exc |-> exc]

\* Lines 76-89: the substring from the first '{' to the last '}'.
LastResort(text) ==
    LET brace_start == Find(text, "{", 1)
        brace_end == RFind(text, "}")
    IN  IF brace_start >= 1 /\ brace_end > brace_start
        THEN LET loaded == JsonLoads(SubSeq(text, brace_start, brace_end))
             IN  IF ~loaded.ok THEN DecodeNone
                 ELSE LET keys == HasNameAndArguments(loaded.v)
                      IN  IF keys.raised THEN DecodeRaises(keys.v)
                          ELSE IF ~keys.v THEN DecodeNone
                          ELSE LET allowed == AnyKeywordIn(GetKey(loaded.v, "name"))
                               IN  IF allowed.raised THEN DecodeRaises(allowed.v)
                                   ELSE IF allowed.v THEN DecodeCall(loaded.v)
                                   ELSE DecodeNone
        ELSE DecodeNone

\* Lines 65-74: the patterns in order; matches is what is left to try.
RECURSIVE TryPatterns(_, _)
TryPatterns(matches, text) ==
    IF matches = <<>> THEN LastResort(text)
    ELSE LET m == Head(matches)
             loaded == JsonLoads(m.text)
         IN  IF ~m.found \/ ~loaded.ok THEN TryPatterns(Tail(matches), text)
             ELSE LET keys == HasNameAndArguments(loaded.v)
                  IN  IF keys.raised THEN DecodeRaises(keys.v)
                      ELSE IF keys.v THEN DecodeCall(loaded.v)
                      ELSE TryPatterns(Tail(matches), text)

\* _parse_tool_call_from_text(text)
ParseToolCallFromText(text) ==
    TryPatterns(<<Pattern1(text), Pattern2(text), Pattern3(text)>>, text)

(***************************************************************************)
(* OpenAILLM._convert_text_to_tool_calls and OpenAILLM.ask.                *)
(***************************************************************************)
max_retries == 3
base_delay == 1

RECURSIVE JsonDumps(_)
RECURSIVE JsonDumpsItems(_)
RECURSIVE JsonDumpsPairs(_)
\* json.dumps(v) with the default separators.
JsonDumps(v) ==
    CASE v.t = "null" -> "null"
      [] v.t = "bool" -> IF v.b THEN "true" ELSE "false"
      [] v.t = "int"  -> ToString(v.i)
      [] v.t = "str"  -> "\"" \o v.s \o "\""
      [] v.t = "list" -> "[" \o JsonDumpsItems(v.items) \o "]"
      [] v.t = "obj"  -> "{" \o JsonDumpsPairs(v.pairs) \o "}"
JsonDumpsItems(items) ==
    IF Len(items) = 0 THEN ""
    ELSE IF Len(items) = 1 THEN JsonDumps(items[1])
    ELSE JsonDumps(items[1]) \o ", " \o JsonDumpsItems(Tail(items))
JsonDumpsPairs(pairs) ==
    IF Len(pairs) = 0 THEN ""
    ELSE IF Len(pairs) = 1 THEN "\"" \o pairs[1].k \o "\": " \o JsonDumps(pairs[1].v)
    ELSE "\"" \o pairs[1].k \o "\": " \o JsonDumps(pairs[1].v) \o ", "
             \o JsonDumpsPairs(Tail(pairs))

\* uuid.uuid4().hex[:24]: some identifier.
Uuids == {"0f3a", "9c1e"}

\* Mutant of ConvertTextToToolCalls: one tool call per tool_call block.
ConvertTextToToolCalls_everyBlock(text, uuid) ==
    LET decoded == ParseToolCallFromText(text)
    IN  IF decoded.kind = "call" /\ IsDict(decoded.parsed)
        THEN LET call == [id |-> "call_" \o uuid, type |-> "function",
                          function |-> [name |-> GetKey(decoded.parsed, "name"),
                                        arguments |-> JsonDumps(GetKey(decoded.parsed, "arguments"))]]
             IN  Value(JList(IF Find(text, FenceToolCall, 1 + Find(text, FenceToolCall, 1)) # 0
                             THEN <<call, call>> ELSE <<call>>))
        ELSE Value(JNull)

\* _convert_text_to_tool_calls(text): the list of tool calls, None (JNull),
\* or the exception that leaves it.
ConvertTextToToolCalls(text, uuid) ==
    LET decoded == ParseToolCallFromText(text)
    IN  CASE decoded.kind = "raise" -> Raises(decoded.exc)
          [] decoded.kind = "none" -> Value(JNull)
          [] decoded.kind = "call" ->
               LET parsed == decoded.parsed
               IN  IF ~PyTruthy(parsed) THEN Value(JNull)
                   ELSE IF ~IsDict(parsed) THEN Raises("TypeError")
                   ELSE LET args == GetKey(parsed, "arguments")
                            args_str == IF IsDict(args) THEN JsonDumps(args) ELSE PyStr(args)
                        IN  Value(JList(<<[id |-> "call_" \o uuid, type |-> "function",
                                           function |-> [name |-> GetKey(parsed, "name"),
                                                         arguments |-> args_str]]>>))

RECURSIVE RemoveToolCallBlocks(_)
\* re.sub(r'~~~tool_call\s*\n?.*?\n?~~~', '', text, flags=re.DOTALL)
RemoveToolCallBlocks(text) ==
    LET i == Find(text, FenceToolCall, 1)
        p == IF i = 0 THEN 0 ELSE Find(text, Fence, i + Len(FenceToolCall))
    IN  IF i = 0 \/ p = 0 THEN text
        ELSE SubSeq(text, 1, i - 1)
                 \o RemoveToolCallBlocks(SubSeq(text, p + Len(Fence), Len(text)))

\* Line 226-227: clean_content or None
CleanContent(text) ==
    LET clean_content == Strip(RemoveToolCallBlocks(text))
    IN  IF clean_content = "" THEN JNull ELSE JStr(clean_content)

\* The arguments ask may be called with.
ToolDescriptor ==
    JObj(<<KV("type", JStr("function")),
           KV("function", JObj(<<KV("name", JStr("shell_exec"))>>))>>)
AskArgs ==
    [tools : {JNull, JList(<<>>), JList(<<ToolDescriptor>>)},
     tool_choice : {JNull, JStr("none"), JStr("auto")},
     response_format : {JNull, JObj(<<KV("type", JStr("json_object"))>>)}]

\* Line 181: use_text_tools = bool(tools) and tool_choice != "none"
UseTextTools(args) == PyTruthy(args.tools) /\ ~IsStrEq(args.tool_choice, "none")

\* Mutant of SendFormat: the response_format is always passed on.
SendFormat_always(args) == args.response_format

\* Lines 200-202: the response_format sent with the request.
SendFormat(args) ==
    IF PyTruthy(args.response_format) /\ ~UseTextTools(args)
    THEN args.response_format ELSE JNull

\* Mutant of Delay: the delay grows linearly.
Delay_linear(a) == base_delay * a

\* Line 192: delay = base_delay * (2 ** (attempt - 1))
Delay(a) == base_delay * 2 ^ (a - 1)

Sleep(d) == [op |-> "sleep", delay |-> d]
Create(args) ==
    [op |-> "create", response_format |-> SendFormat(args), injected |-> UseTextTools(args)]

\* Lines 191-211: the sleep before a retry, then the request.
LogOfAttempt ==
    ask_log \o (IF attempt > 0 THEN <<Sleep(Delay(attempt))>> ELSE <<>>) \o <<Create(ask_args)>>

\* What message.content of a reply may be.
ReplyContents == {JNull, JStr("")} \cup {JStr(t) : t \in ReplyTexts}

\* Lines 216-218 and 233-238: the attempt failed with exception exc.
FailAttempt(exc) ==
    IF attempt = max_retries
    THEN /\ ask_pc' = "raised"
         /\ ask_result' = [kind |-> "raised", exc |-> exc]
         /\ attempt' = attempt
    ELSE /\ ask_pc' = "loop"
         /\ attempt' = attempt + 1
         /\ ask_result' = ask_result

EngineIdle ==
    /\ pc = "idle"
    /\ step = NewStep
    /\ sandbox = FALSE
    /\ consumed = <<>>
    /\ emitted = <<>>
    /\ exec_results = <<>>
    /\ sandbox_calls = <<>>

\* Lines 174-186: ask is called.
AskStart ==
    /\ ask_pc = "idle"
    /\ \E args \in AskArgs : ask_args' = args
    /\ ask_pc' = "loop"
    /\ attempt' = 0
    /\ UNCHANGED <<ask_log, outcomes, ask_result, engineVars, shellVars, fileVars, encodeVars>>

\* Lines 204-211 and 233-238: the completion service raises.
AskTransportFailure ==
    /\ ask_pc = "loop"
    /\ ask_log' = LogOfAttempt
    /\ outcomes' = Append(outcomes, [kind |-> "transport", content |-> JNull])
    /\ FailAttempt("APIConnectionError")
    /\ UNCHANGED <<ask_args, engineVars, shellVars, fileVars, encodeVars>>

\* Lines 213-218: the response carries no choices.
AskEmptyResponse ==
    /\ ask_pc = "loop"
    /\ ask_log' = LogOfAttempt
    /\ outcomes' = Append(outcomes, [kind |-> "empty", content |-> JNull])
    /\ FailAttempt("ValueError")
    /\ UNCHANGED <<ask_args, engineVars, shellVars, fileVars, encodeVars>>

\* Lines 220-231: the response carries a message.
AskReply ==
    /\ ask_pc = "loop"
    /\ ask_log' = LogOfAttempt
    /\ \E content \in ReplyContents, uuid \in Uuids :
         /\ outcomes' = Append(outcomes, [kind |-> "reply", content |-> content])
         /\ IF UseTextTools(ask_args) /\ PyTruthy(content)
            THEN LET tool_calls == ConvertTextToToolCalls(content.s, uuid)
                 IN  IF tool_calls.raised THEN FailAttempt(tool_calls.v)
                     ELSE /\ ask_pc' = "returned"
                          /\ attempt' = attempt
                          /\ ask_result' =
                               IF PyTruthy(tool_calls.v)
                               THEN [kind |-> "returned", content |-> CleanContent(content.s),
                                     tool_calls |-> tool_calls.v]
                               ELSE [kind |-> "returned", content |-> content,
                                     tool_calls |-> JNull]
            ELSE /\ ask_pc' = "returned"
                 /\ attempt' = attempt
                 /\ ask_result' = [kind |-> "returned", content |-> content,
                                   tool_calls |-> JNull]
    /\ UNCHANGED <<ask_args, engineVars, shellVars, fileVars, encodeVars>>

InitAsk == AskIdle /\ EngineIdle /\ ShellIdle /\ FilesIdle /\ EncodeIdle

NextAsk ==
    \/ AskStart
    \/ AskTransportFailure
    \/ AskEmptyResponse
    \/ AskReply

SpecAsk == InitAsk /\ [][NextAsk]_vars

(***************************************************************************)
(* Claims about OpenAILLM.ask, checked under SpecAsk.                      *)
(***************************************************************************)
ServiceFailures == {"transport", "empty"}

\* The delays of the sleeps of a log, in order.
Sleeps(log) == SelectSeq(log, LAMBDA e : e.op = "sleep")
Creates(log) == SelectSeq(log, LAMBDA e : e.op = "create")
SleepDelays(log) == [i \in 1..Len(Sleeps(log)) |-> Sleeps(log)[i].delay]
ExpectedDelays(k) == [i \in 1..k |-> base_delay * 2 ^ (i - 1)]

FirstFailed(k) ==
    /\ Len(outcomes) >= k
    /\ \A i \in 1..k : outcomes[i].kind \in ServiceFailures

\* Reply texts that are malformed tool-call text.
MalformedToolCallTexts ==
    {ReplyNumberBlock, ReplyNameNotText, ReplyBrokenBlock, ReplyBareNameNotText}

\* C8: if the completion service fails on the first k attempts (k <= 3) and
\* then returns a response carrying a message, ask has returned, exactly k
\* backoff waits of base_delay*2^0, base_delay*2^1, ... were performed, no
\* wait precedes the first attempt and the service was called k+1 times.
C8_SucceedsAfterFailures ==
    \A k \in 0..max_retries :
        (FirstFailed(k) /\ Len(outcomes) = k + 1 /\ outcomes[k + 1].kind = "reply")
            => /\ ask_pc = "returned"
               /\ ask_result.kind = "returned"
               /\ SleepDelays(ask_log) = ExpectedDelays(k)
               /\ ask_log[1].op = "create"
               /\ Len(Creates(ask_log)) = k + 1
               /\ ask_log[Len(ask_log)].op = "create"

\* C9: the completion service is called at most 4 times per ask; if all 4
\* attempts fail (transport failure or empty response) ask has raised,
\* exactly 3 backoff waits of 1, 2, 4 occurred, and the log ends with the
\* 4th call.
C9_RaisesAfterFourFailures ==
    /\ Len(Creates(ask_log)) <= max_retries + 1
    /\ Len(outcomes) = Len(Creates(ask_log))
    /\ (FirstFailed(max_retries + 1)
            => /\ ask_pc = "raised"
               /\ ask_result.kind = "raised"
               /\ Len(outcomes) = max_retries + 1
               /\ SleepDelays(ask_log) = <<1, 2, 4>>
               /\ Len(Creates(ask_log)) = max_retries + 1
               /\ ask_log[Len(ask_log)].op = "create")
    /\ (ask_pc \in {"raised", "returned"} => ~ENABLED NextAsk)

C9_Witness ==
    /\ ask_pc = "raised"
    /\ FirstFailed(max_retries + 1)
    /\ outcomes[1].kind = "transport"
    /\ outcomes[2].kind = "empty"
    /\ Len(Sleeps(ask_log)) = max_retries

\* C10: every outcome that carries a message ends the ask call with a
\* return; when its text is malformed tool-call text the reply is returned
\* with its content and no tool call.
C10_MalformedTextRecovered ==
    \A i \in 1..Len(outcomes) :
        outcomes[i].kind = "reply"
            => /\ i = Len(outcomes)
               /\ ask_pc = "returned"
               /\ (outcomes[i].content.t = "str"
                    /\ outcomes[i].content.s \in MalformedToolCallTexts)
                      => /\ ask_result.content = outcomes[i].content
                         /\ ask_result.tool_calls = JNull

(***************************************************************************)
(* Claims about the tool-call text protocol, checked under SpecAsk.        *)
(***************************************************************************)
\* The reply that ask returned from.
ReturnedReply == outcomes[Len(outcomes)].content
\* ask returned on the text-protocol path.
ReturnedOnTextPath ==
    /\ ask_pc = "returned"
    /\ UseTextTools(ask_args)
    /\ ReturnedReply.t = "str"
CallIds == {"call_" \o u : u \in Uuids}

\* C11: the result of ask on the text-protocol path carries no tool call or
\* exactly one; the one synthesized has a generated correlation id and the
\* name and, JSON-encoded, the arguments of the decoded call; of several
\* tool_call blocks the first is the call.
C11_AtMostOneToolCall ==
    ReturnedOnTextPath =>
        LET tool_calls == ask_result.tool_calls
            decoded == ParseToolCallFromText(ReturnedReply.s)
        IN  \/ tool_calls = JNull
            \/ /\ tool_calls.t = "list"
               /\ Len(tool_calls.items) = 1
               /\ tool_calls.items[1].type = "function"
               /\ tool_calls.items[1].id \in CallIds
               /\ decoded.kind = "call"
               /\ tool_calls.items[1].function.name = GetKey(decoded.parsed, "name")
               /\ JsonLoads(tool_calls.items[1].function.arguments)
                      = ParseOk(GetKey(decoded.parsed, "arguments"))
               /\ (ReturnedReply.s = ReplyTwoCalls
                      => tool_calls.items[1].function
                             = [name |-> JStr("shell_exec"),
                                arguments |-> "{\"command\": \"ls\"}"])

C11_Witness ==
    /\ ReturnedOnTextPath
    /\ ReturnedReply.s = ReplyTwoCalls
    /\ ask_result.tool_calls # JNull
    /\ Len(ask_result.tool_calls.items) = 1

\* A name that begins with one of the allow-listed prefixes.
BeginsWithAllowedPrefix(name) ==
    /\ name.t = "str"
    /\ \E k \in 1..Len(ToolNameKeywords) : StartsWithAt(name.s, 1, ToolNameKeywords[k])

\* The replies that hold no fence: only the last-resort strategy applies.
UnfencedReplies ==
    {i \in 1..Len(outcomes) :
        /\ outcomes[i].kind = "reply"
        /\ outcomes[i].content.t = "str"
        /\ ~Contains(outcomes[i].content.s, Fence)}

\* The candidate of the last-resort strategy: first '{' to last '}'.
BraceCandidate(text) ==
    LET brace_start == Find(text, "{", 1)
        brace_end == RFind(text, "}")
    IN  IF brace_start >= 1 /\ brace_end > brace_start
        THEN Match(SubSeq(text, brace_start, brace_end)) ELSE NoMatch

\* C12: for unfenced text holding a JSON object with name and arguments
\* whose name is text, decode returns the object if the name begins with an
\* allow-listed prefix, and none for every other name.
C12_LastResortPrefixOnly ==
    \A i \in UnfencedReplies :
        LET text == outcomes[i].content.s
            m == BraceCandidate(text)
            loaded == JsonLoads(m.text)
        IN  (/\ UseTextTools(ask_args)
             /\ m.found
             /\ loaded.ok
             /\ IsDict(loaded.v)
             /\ HasKey(loaded.v, "name")
             /\ HasKey(loaded.v, "arguments")
             /\ GetKey(loaded.v, "name").t = "str")
                => ParseToolCallFromText(text)
                       = IF BeginsWithAllowedPrefix(GetKey(loaded.v, "name"))
                         THEN DecodeCall(loaded.v) ELSE DecodeNone

\* The four candidates of a text, in the order of the strategies.
Candidates(text) == <<Pattern1(text), Pattern2(text), Pattern3(text), BraceCandidate(text)>>
\* A candidate that is a JSON object with name and arguments (and for the
\* last strategy an allow-listed name).
StructurallyValid(text, k) ==
    LET m == Candidates(text)[k]
        loaded == JsonLoads(m.text)
    IN  /\ m.found
        /\ loaded.ok
        /\ IsDict(loaded.v)
        /\ HasKey(loaded.v, "name")
        /\ HasKey(loaded.v, "arguments")
        /\ (k = 4 => BeginsWithAllowedPrefix(GetKey(loaded.v, "name")))
ValidStrategies(text) == {k \in 1..4 : StructurallyValid(text, k)}
\* The candidate text of the strategy that decodes the text.
MatchedCandidate(text) == Candidates(text)[Least(ValidStrategies(text))].text

\* C13: whenever ask attaches a decoded tool call, the block that was matched
\* is no longer in the returned content, and the returned content is none
\* rather than empty.
C13_MatchedBlockRemoved ==
    (ReturnedOnTextPath /\ ask_result.tool_calls # JNull
         /\ ValidStrategies(ReturnedReply.s) # {})
        => \/ ask_result.content = JNull
           \/ /\ ask_result.content.t = "str"
              /\ ask_result.content.s # ""
              /\ ~Contains(ask_result.content.s, MatchedCandidate(ReturnedReply.s))

\* C14: when some strategy has a structurally valid candidate, decode
\* returns the candidate of the first such strategy in the order 1..4,
\* whatever the candidates of the earlier strategies are.
C14_FirstValidStrategyWins ==
    \A i \in 1..Len(outcomes) :
        (outcomes[i].kind = "reply" /\ outcomes[i].content.t = "str"
            /\ ValidStrategies(outcomes[i].content.s) # {})
            => ParseToolCallFromText(outcomes[i].content.s)
                   = DecodeCall(JsonLoads(MatchedCandidate(outcomes[i].content.s)).v)

\* The tool-call text protocol is active: descriptors supplied, mode not none.
ProtocolActive ==
    /\ ask_args.tools.t = "list"
    /\ Len(ask_args.tools.items) > 0
    /\ ask_args.tool_choice # JStr("none")

\* C15: every request of the retry loop carries the caller's response schema
\* if the text protocol is inactive, and no schema and the rewritten messages
\* if it is active.
C15_SchemaOnlyWithoutProtocol ==
    \A j \in 1..Len(ask_log) :
        ask_log[j].op = "create"
            => /\ ask_log[j].injected = ProtocolActive
               /\ ask_log[j].response_format
                      = IF ProtocolActive THEN JNull ELSE ask_args.response_format

C15_Witness ==
    /\ ProtocolActive
    /\ ask_args.response_format # JNull
    /\ Len(Creates(ask_log)) >= 2
    /\ \A j \in 1..Len(ask_log) :
          ask_log[j].op = "create" => ask_log[j].response_format = JNull

(***************************************************************************)
(* LocalShellSession and LocalSandbox (local_sandbox.py).                  *)
(* A process is "running", "killed" (signalled, not yet reaped) or         *)
(* "exited" (reaped: its returncode is set).  An exec_command call is      *)
(* "waiting" (in wait_for(communicate())), "returned" or "raised".         *)
(***************************************************************************)
\* Line 50-51: the length the console transcript is cut to.
ConsoleLimit == 500

\* Numbers of lines a command may write.
OutputSizes == {0, 300}
\* Return codes of a command that ends by itself.
ReturnCodes == {0, 1}
SIGKILL == 0 - 9

\* The lines a command writes: the lines written in one session are numbered.
Lines(from, n) == [i \in 1..n |-> from + i]

NotKilled == [kind |-> "none"]
KilledByTimeout(c) == [kind |-> "timeout", call |-> c]
KilledByDestroy(sb) == [kind |-> "destroy", sandbox |-> sb]
KilledByKillProcess == [kind |-> "kill_process"]

\* Mutant of LaunchedStdin: the process is launched with a pipe on its input.
LaunchedStdin_piped == TRUE

\* Lines 34-40: create_subprocess_shell is given stdout and stderr and no
\* stdin, so process.stdin is None.
LaunchedStdin == FALSE

\* Lines 21-27: LocalShellSession.__init__ (created_by and appended record
\* the sandbox instance that constructed it and the lines appended so far).
NewSession(session_id, sb) ==
    [session_id |-> session_id, created_by |-> sb, process |-> 0,
     output_lines |-> <<>>, console_lines |-> <<>>, running |-> FALSE, appended |-> 0]

\* cls._sessions is a class attribute: every instance reads the same dict.
SessionsOf(sb) == sessions

\* Lines 105-111: _get_or_create_session: the object's index, and the state
\* of the dict and of the objects after it.
SessionCreated(sb, sid) == SessionsOf(sb)[sid] = 0
SessionIndex(sb, sid) ==
    IF SessionCreated(sb, sid) THEN Len(session_objs) + 1 ELSE SessionsOf(sb)[sid]
\* Mutant of SessionsAfterGet: the new session is not put into the dict.
SessionsAfterGet_notRegistered(sb, sid) == sessions

SessionsAfterGet(sb, sid) ==
    IF SessionCreated(sb, sid)
    THEN [sessions EXCEPT ![sid] = Len(session_objs) + 1] ELSE sessions
ObjsAfterGet(sb, sid) ==
    IF SessionCreated(sb, sid)
    THEN Append(session_objs, NewSession(sid, sb)) ELSE session_objs

\* Mutant of TrackedAfterLaunch: a handle already tracked is kept.
TrackedAfterLaunch_keepFirst(old, new) == IF old = 0 THEN new ELSE old

\* Line 34: self.process = the process just launched.
TrackedAfterLaunch(old, new) == new

\* Mutant of TrimConsole: the oldest lines are kept.
TrimConsole_oldest(lines) ==
    IF Len(lines) > ConsoleLimit THEN SubSeq(lines, 1, ConsoleLimit) ELSE lines

\* Lines 50-51: console_lines[-500:] when longer than 500.
TrimConsole(lines) ==
    IF Len(lines) > ConsoleLimit
    THEN SubSeq(lines, Len(lines) - ConsoleLimit + 1, Len(lines)) ELSE lines

\* str(returncode)
ReturnCodeText(rc) == IF rc = JNull THEN "None" ELSE ToString(rc.i)

\* Lines 55-63, 68-72, 75-79: the ToolResult values.
CompletedResult(rc, lines, sid) ==
    [success |-> rc = JInt(0), message |-> "Exit code: " \o ReturnCodeText(rc),
     data |-> [output |-> [lines |-> lines], exit_code |-> rc, id |-> sid]]
TimeoutResult(sid) ==
    [success |-> FALSE, message |-> "Command timed out after 120 seconds",
     data |-> [output |-> [text |-> "Command timed out"], exit_code |-> JInt(0 - 1), id |-> sid]]
ErrorResult(text, sid) ==
    [success |-> FALSE, message |-> text,
     data |-> [output |-> [text |-> text], exit_code |-> JInt(0 - 1), id |-> sid]]
NoResult == [success |-> FALSE, message |-> "", data |-> [id |-> ""]]

\* process.kill(): a running process is signalled; a reaped one raises
\* ProcessLookupError.
KillRaises(p) == procs[p].state = "exited"
ProcsAfterKill(ps, p, by) ==
    IF ps[p].state = "running"
    THEN [ps EXCEPT ![p].state = "killed", ![p].killed_by = by] ELSE ps

\* LocalSandbox.exec_command (113-115) up to the wait at line 43: the
\* session is looked up or created, the process launched and tracked.
ExecCommand ==
    /\ Len(calls) < MaxCalls
    /\ \E sb \in Sandboxes, sid \in SessionIds :
         LET o == SessionIndex(sb, sid)
             objs == ObjsAfterGet(sb, sid)
             p == Len(procs) + 1
             c == Len(calls) + 1
         IN  /\ sessions' = SessionsAfterGet(sb, sid)
             /\ procs' = Append(procs, [state |-> "running", returncode |-> JNull,
                                        launched_by |-> c, killed_by |-> NotKilled,
                                        stdin |-> LaunchedStdin, input |-> <<>>])
             /\ session_objs' = [objs EXCEPT ![o].process = TrackedAfterLaunch(@, p),
                                             ![o].running = TRUE]
             /\ calls' = Append(calls, [sandbox |-> sb, session |-> o, proc |-> p,
                                        pc |-> "waiting", timed_out |-> FALSE,
                                        result |-> NoResult])
    /\ UNCHANGED <<engineVars, askVars, fileVars, encodeVars>>
    /\ view' = NoView

\* Lines 34 and 73-79: create_subprocess_shell raises (no process).
ExecCommandLaunchFails ==
    /\ Len(calls) < MaxCalls
    /\ \E sb \in Sandboxes, sid \in SessionIds :
         LET o == SessionIndex(sb, sid)
             objs == ObjsAfterGet(sb, sid)
         IN  /\ sessions' = SessionsAfterGet(sb, sid)
             /\ session_objs' = [objs EXCEPT ![o].running = FALSE]
             /\ calls' = Append(calls, [sandbox |-> sb, session |-> o, proc |-> 0,
                                        pc |-> "returned", timed_out |-> FALSE,
                                        result |-> ErrorResult("[Errno 24] Too many open files", sid)])
    /\ UNCHANGED <<procs, engineVars, askVars, fileVars, encodeVars>>
    /\ view' = NoView

\* Lines 43-63: communicate() returns: the process of this call has ended.
\* The result is built from self.process, the handle tracked at that time.
CommandCompletes ==
    \E c \in 1..Len(calls), n \in OutputSizes, rc \in ReturnCodes :
        /\ calls[c].pc = "waiting"
        /\ LET o == calls[c].session
               own == calls[c].proc
               ended == CASE procs[own].state = "running" ->
                               [procs EXCEPT ![own].state = "exited", ![own].returncode = JInt(rc)]
                          [] procs[own].state = "killed" ->
                               [procs EXCEPT ![own].state = "exited", ![own].returncode = JInt(SIGKILL)]
                          [] OTHER -> procs
               output_lines == Lines(session_objs[o].appended, n)
               returncode == ended[session_objs[o].process].returncode
           IN  /\ procs' = ended
               /\ session_objs' =
                    [session_objs EXCEPT
                        ![o].output_lines = output_lines,
                        ![o].console_lines = TrimConsole(@ \o output_lines),
                        ![o].appended = @ + n,
                        ![o].running = FALSE]
               /\ calls' = [calls EXCEPT
                               ![c].pc = "returned",
                               ![c].result = CompletedResult(returncode, output_lines,
                                                             session_objs[o].session_id)]
        /\ UNCHANGED <<sessions, engineVars, askVars, fileVars, encodeVars>>
        /\ view' = NoView

\* Mutant of AfterTimeout: the handler also empties the buffers.
AfterTimeout_clearsOutput(session) ==
    [session EXCEPT !.running = FALSE, !.output_lines = <<>>, !.console_lines = <<>>]

\* Line 67: the session after the timeout handler: _running = False, the
\* buffers are not assigned.
AfterTimeout(session) == [session EXCEPT !.running = FALSE]

\* Lines 64-72: the wait of 120 seconds ends before the process does.
CommandTimesOut ==
    \E c \in 1..Len(calls) :
        /\ calls[c].pc = "waiting"
        /\ procs[calls[c].proc].state = "running"
        /\ LET o == calls[c].session
               tracked == session_objs[o].process
           IN  IF KillRaises(tracked)
               THEN /\ calls' = [calls EXCEPT ![c].pc = "raised", ![c].timed_out = TRUE,
                                              ![c].result = ErrorResult("ProcessLookupError", "")]
                    /\ UNCHANGED <<procs, session_objs>>
               ELSE /\ procs' = ProcsAfterKill(procs, tracked, KilledByTimeout(c))
                    /\ session_objs' = [session_objs EXCEPT ![o] = AfterTimeout(@)]
                    /\ calls' = [calls EXCEPT
                                    ![c].pc = "returned", ![c].timed_out = TRUE,
                                    ![c].result = TimeoutResult(session_objs[o].session_id)]
        /\ UNCHANGED <<sessions, engineVars, askVars, fileVars, encodeVars>>
        /\ view' = NoView

\* The event loop reaps a killed process: its returncode is set.
ProcessReaped ==
    \E p \in 1..Len(procs) :
        /\ procs[p].state = "killed"
        /\ procs' = [procs EXCEPT ![p].state = "exited", ![p].returncode = JInt(SIGKILL)]
        /\ UNCHANGED <<sessions, session_objs, calls, engineVars, askVars, fileVars, encodeVars>>
        /\ view' = NoView

\* Lines 285-301: destroy kills the process of every session and clears the dict.
\* Mutant of KillAll: destroy signals no process.
KillAll_none(ps, handles, by) == ps

RECURSIVE KillAll(_, _, _)
KillAll(ps, handles, by) ==
    IF handles = {} THEN ps
    ELSE LET p == CHOOSE h \in handles : TRUE
         IN  KillAll(ProcsAfterKill(ps, p, by), handles \ {p}, by)
Destroy ==
    \E sb \in Sandboxes :
        LET handles == {session_objs[SessionsOf(sb)[sid]].process :
                           sid \in {x \in SessionIds : SessionsOf(sb)[x] # 0}} \ {0}
        IN  /\ \E sid \in SessionIds : SessionsOf(sb)[sid] # 0
            /\ procs' = KillAll(procs, handles, KilledByDestroy(sb))
            /\ sessions' = [sid \in SessionIds |-> 0]
            /\ UNCHANGED <<session_objs, calls, engineVars, askVars, fileVars, encodeVars>>
            /\ view' = NoView

\* Lines 30-31: os.makedirs(workdir) stands before the try and raises when the
\* directory cannot be made; the session is already in the dict (line 114).
ExecCommandMakedirsFails ==
    /\ Len(calls) < MaxCalls
    /\ \E sb \in Sandboxes, sid \in SessionIds :
         LET o == SessionIndex(sb, sid)
         IN  /\ sessions' = SessionsAfterGet(sb, sid)
             /\ session_objs' = ObjsAfterGet(sb, sid)
             /\ calls' = Append(calls, [sandbox |-> sb, session |-> o, proc |-> 0,
                                        pc |-> "raised", timed_out |-> FALSE,
                                        result |-> ErrorResult("NotADirectoryError", "")])
    /\ view' = NoView
    /\ UNCHANGED <<procs, engineVars, askVars, fileVars, encodeVars>>

\* Mutant of LastN: the first n elements.
LastN_first(lines, n) == IF Len(lines) > n THEN SubSeq(lines, 1, n) ELSE lines

\* lines[-n:]
LastN(lines, n) ==
    IF Len(lines) > n THEN SubSeq(lines, Len(lines) - n + 1, Len(lines)) ELSE lines

\* Lines 117-127: the ToolResult of view_shell.
ViewShellResult(sb, session_id, console) ==
    IF SessionsOf(sb)[session_id] = 0
    THEN [success |-> TRUE, data |-> [console |-> <<>>, running |-> FALSE]]
    ELSE LET session == session_objs[SessionsOf(sb)[session_id]]
         IN  [success |-> TRUE,
              data |-> [console |-> IF console THEN LastN(session.console_lines, 100)
                                    ELSE LastN(session.output_lines, 50),
                        running |-> session.running]]

\* view_shell and write_to_process change nothing a later call reads: a call
\* that follows one of them is taken from the state before it.
AfterQuery == view.op \in {"view_shell", "write_to_process"}

\* LocalSandbox.view_shell (117-127).
ViewShell ==
    /\ ~AfterQuery
    /\ \E sb \in Sandboxes, sid \in SessionIds, console \in BOOLEAN :
         view' = [op |-> "view_shell", session_id |-> sid, console |-> console,
                  result |-> ViewShellResult(sb, sid, console)]
    /\ UNCHANGED <<sessions, session_objs, procs, calls, engineVars, askVars, fileVars, encodeVars>>

\* Mutant of RunningAfterKill: the flag is left as it was.
RunningAfterKill_kept(old) == old

\* Line 154: session._running = False.
RunningAfterKill(old) == FALSE

\* Lines 148-156: kill_process.
KillProcess ==
    /\ \E sb \in Sandboxes, sid \in SessionIds :
         LET o == SessionsOf(sb)[sid]
             tracked == IF o = 0 THEN 0 ELSE session_objs[o].process
         IN  /\ IF tracked # 0
                THEN /\ procs' = ProcsAfterKill(procs, tracked, KilledByKillProcess)
                     /\ session_objs' = [session_objs EXCEPT ![o].running = RunningAfterKill(@)]
                ELSE UNCHANGED <<procs, session_objs>>
             /\ view' = [op |-> "kill_process", session_id |-> sid,
                         result |-> [success |-> TRUE, message |-> "Process killed"]]
    /\ UNCHANGED <<sessions, calls, engineVars, askVars, fileVars, encodeVars>>

\* Lines 139-146: write_to_process.
WriteInputs == {"y"}
WriteToProcess ==
    /\ ~AfterQuery
    /\ \E sb \in Sandboxes, sid \in SessionIds, input_text \in WriteInputs,
          press_enter \in BOOLEAN :
         LET o == SessionsOf(sb)[sid]
             tracked == IF o = 0 THEN 0 ELSE session_objs[o].process
             text == input_text \o (IF press_enter THEN "\n" ELSE "")
         IN  IF tracked = 0 \/ ~procs[tracked].stdin
             THEN /\ view' = [op |-> "write_to_process", session_id |-> sid,
                              result |-> [success |-> FALSE,
                                          message |-> "No running process to write to"]]
                  /\ procs' = procs
             ELSE /\ view' = [op |-> "write_to_process", session_id |-> sid,
                              result |-> [success |-> TRUE, message |-> ""]]
                  /\ procs' = [procs EXCEPT ![tracked].input = Append(@, text)]
    /\ UNCHANGED <<sessions, session_objs, calls, engineVars, askVars, fileVars, encodeVars>>

InitShell == ShellIdle /\ AskIdle /\ EngineIdle /\ FilesIdle /\ EncodeIdle

NextShell ==
    \/ ExecCommand
    \/ ExecCommandLaunchFails
    \/ ExecCommandMakedirsFails
    \/ CommandCompletes
    \/ CommandTimesOut
    \/ ProcessReaped
    \/ Destroy
    \/ ViewShell
    \/ KillProcess
    \/ WriteToProcess

SpecShell == InitShell /\ [][NextShell]_vars

(***************************************************************************)
(* Claims about the shell sessions, checked under SpecShell.               *)
(***************************************************************************)
CallIndexes == 1..Len(calls)
ObjIndexes == 1..Len(session_objs)
ProcIndexes == 1..Len(procs)

\* C16: when the wait of an exec_command call times out, the call returns
\* (it does not raise) success=false, exit_code=-1 and the timeout message,
\* the process the call launched has been killed, and the running flag of
\* the session is false.
C16_TimeoutKillsAndReturns ==
    [][\A c \in CallIndexes :
          (calls[c].pc = "waiting" /\ calls'[c].timed_out)
              => /\ calls'[c].pc = "returned"
                 /\ calls'[c].result = TimeoutResult(session_objs[calls[c].session].session_id)
                 /\ procs'[calls[c].proc].state = "killed"
                 /\ ~session_objs'[calls[c].session].running]_vars

\* The last n elements of the lines 1..total.
MostRecent(total, n) == [i \in 1..n |-> total - n + i]
Min(a, b) == IF a <= b THEN a ELSE b

\* C17: the console transcript of every session holds at most 500 lines, and
\* they are the most recent of the lines appended.
C17_ConsoleBounded ==
    \A o \in ObjIndexes :
        /\ Len(session_objs[o].console_lines) <= 500
        /\ session_objs[o].console_lines
               = MostRecent(session_objs[o].appended, Min(500, session_objs[o].appended))

C17_Witness ==
    \E o \in ObjIndexes :
        /\ session_objs[o].appended = 600
        /\ Len(session_objs[o].console_lines) = 500
        /\ \E c \in CallIndexes : calls[c].session = o /\ calls[c].pc = "returned"

\* C18: a process killed by the timeout of an exec_command call is the
\* process that call launched.
C18_TimeoutKillsOwnProcess ==
    \A p \in ProcIndexes :
        procs[p].killed_by.kind = "timeout"
            => procs[p].killed_by.call = procs[p].launched_by

\* C19: a session is visible only through the sandbox instance that created
\* it, and only destroy of that instance kills its processes.
C19_SessionsPerSandbox ==
    /\ \A sb \in Sandboxes, sid \in SessionIds :
          SessionsOf(sb)[sid] # 0 => session_objs[SessionsOf(sb)[sid]].created_by = sb
    /\ \A p \in ProcIndexes :
          procs[p].killed_by.kind = "destroy"
              => procs[p].killed_by.sandbox
                     = session_objs[calls[procs[p].launched_by].session].created_by

\* The processes launched on a session, in launch order.
LaunchedOn(o) == {p \in ProcIndexes : calls[procs[p].launched_by].session = o}
Greatest(S) == CHOOSE i \in S : \A j \in S : j <= i

\* C20: a session tracks no handle before its first launch and afterwards
\* the process of the command launched last on it.
C20_TracksLatestProcess ==
    \A o \in ObjIndexes :
        session_objs[o].process
            = IF LaunchedOn(o) = {} THEN 0 ELSE Greatest(LaunchedOn(o))

C20_Witness ==
    \E o \in ObjIndexes :
        /\ Cardinality(LaunchedOn(o)) >= 2
        /\ \A p \in LaunchedOn(o) : procs[p].state = "running"
        /\ session_objs[o].process = Greatest(LaunchedOn(o))

\* C21 (as claimed): no sandbox operation raises to its caller: every
\* exec_command call that has ended has returned a ToolResult, a call that
\* failed reports it as success=false with a message, and every file
\* operation, download included, has returned a ToolResult.
C21_NoOperationRaises ==
    /\ \A c \in CallIndexes :
          /\ calls[c].pc # "raised"
          /\ (calls[c].pc = "returned" /\ calls[c].proc = 0)
                => (~calls[c].result.success /\ calls[c].result.message # "")
    /\ file_op.op # "none"
          => (file_op.outcome = "returned" /\ file_op.result.type = "ToolResult")

\* This step is destroy() on a registry that holds a session.
DestroyStep ==
    /\ \E sid \in SessionIds : sessions[sid] # 0
    /\ \A sid \in SessionIds : sessions'[sid] = 0
EmptyView == [console |-> <<>>, running |-> FALSE]

\* C25: destroy leaves no process tracked by a session of the registry
\* running and empties the registry; view_shell on an id that is not in the
\* registry returns the empty not-running result, and exec_command on such an
\* id puts a new session with empty buffers into the registry.
C25_DestroyKillsAndClears ==
    [][/\ DestroyStep =>
            \A sid \in SessionIds :
                (sessions[sid] # 0 /\ session_objs[sessions[sid]].process # 0)
                    => procs'[session_objs[sessions[sid]].process].state # "running"
       /\ (view'.op = "view_shell" /\ sessions[view'.session_id] = 0)
            => (view'.result.success /\ view'.result.data = EmptyView)
       /\ Len(calls') = Len(calls) + 1 =>
            LET o == calls'[Len(calls')].session
                sid == session_objs'[o].session_id
            IN  sessions[sid] = 0 =>
                  /\ o = Len(session_objs) + 1
                  /\ sessions'[sid] = o
                  /\ session_objs'[o].output_lines = <<>>
                  /\ session_objs'[o].console_lines = <<>>]_vars

\* A session whose process destroy killed has been replaced in the registry,
\* under the same id, by a new session with empty buffers.
C25_Witness ==
    \E o1, o2 \in ObjIndexes :
        /\ o1 < o2
        /\ session_objs[o1].session_id = session_objs[o2].session_id
        /\ session_objs[o1].process # 0
        /\ procs[session_objs[o1].process].killed_by.kind = "destroy"
        /\ sessions[session_objs[o2].session_id] = o2
        /\ session_objs[o2].console_lines = <<>>

\* C26 (as claimed): when the process of an exec_command call exits by
\* itself, the result has success = (exit code = 0) and that exit code, the
\* session's output buffer is exactly the lines of this command, and these
\* lines are the end of the console transcript.
C26_NormalExitResult ==
    [][\A c \in CallIndexes :
          (calls[c].pc = "waiting" /\ calls'[c].pc = "returned" /\ ~calls'[c].timed_out
             /\ procs[calls[c].proc].state = "running")
          => LET o == calls[c].session
                 rc == procs'[calls[c].proc].returncode
                 r == calls'[c].result
                 written == r.data.output.lines
             IN  /\ r.success = (rc = JInt(0))
                 /\ r.data.exit_code = rc
                 /\ session_objs'[o].output_lines = written
                 /\ session_objs'[o].console_lines
                      = LastN(session_objs[o].console_lines \o written, 500)]_vars

\* C27: view_shell returns success=true, the running flag of the session and
\* the last 100 lines of its console transcript (console requested) or the
\* last 50 lines of its output buffer (otherwise); for an id that is not in
\* the registry, an empty list and running=false; it changes neither the
\* registry nor any session, process or call.
C27_ViewShellWindow ==
    [][view'.op = "view_shell" =>
          /\ UNCHANGED <<sessions, session_objs, procs, calls>>
          /\ view'.result.success
          /\ LET o == sessions[view'.session_id]
                 got == view'.result.data.console
             IN  IF o = 0 THEN view'.result.data = EmptyView
                 ELSE LET from == IF view'.console THEN session_objs[o].console_lines
                                  ELSE session_objs[o].output_lines
                          limit == IF view'.console THEN 100 ELSE 50
                      IN  /\ Len(got) = Min(limit, Len(from))
                          /\ \A k \in 1..Len(got) : got[k] = from[Len(from) - Len(got) + k]
                          /\ view'.result.data.running = session_objs[o].running]_vars

\* The console of a session that holds 500 lines was viewed: 100 lines, the
\* last of them the last line of the transcript.
C27_Witness ==
    /\ view.op = "view_shell"
    /\ view.console
    /\ Len(view.result.data.console) = 100
    /\ LET o == sessions[view.session_id]
       IN  /\ o # 0
           /\ Len(session_objs[o].console_lines) = 500
           /\ view.result.data.console[100] = session_objs[o].console_lines[500]

\* The handle the registry tracks under a session id (0: none).
TrackedUnder(sid) == IF sessions[sid] = 0 THEN 0 ELSE session_objs[sessions[sid]].process

\* C34: kill_process returns success=true for every session id; for an id
\* that is not registered or a session without a process it changes nothing;
\* a process that has already exited is tolerated (nothing is signalled, the
\* call still returns); whenever the session tracks a process, that process
\* is not running and the running flag of the session is false afterwards.
C34_KillProcessAlwaysSucceeds ==
    [][view'.op = "kill_process" =>
          LET sid == view'.session_id
              tracked == TrackedUnder(sid)
          IN  /\ view'.result.success
              /\ UNCHANGED <<sessions, calls>>
              /\ tracked = 0 => UNCHANGED <<session_objs, procs>>
              /\ tracked # 0 =>
                    /\ ~session_objs'[sessions[sid]].running
                    /\ procs'[tracked].state # "running"
                    /\ procs[tracked].state = "exited" => procs' = procs]_vars

\* kill_process has just returned for a session whose process had exited by
\* itself, and a process of another session was killed by kill_process.
C34_Witness ==
    /\ view.op = "kill_process"
    /\ view.result.success
    /\ TrackedUnder(view.session_id) # 0
    /\ procs[TrackedUnder(view.session_id)].state = "exited"
    /\ procs[TrackedUnder(view.session_id)].killed_by = NotKilled
    /\ \E p \in ProcIndexes : procs[p].killed_by = KilledByKillProcess

\* C35: write_to_process never succeeds for a process launched by
\* exec_command: in every state the sandbox operations reach it returns
\* success=false with "No running process to write to", and no process has
\* been sent any input.
C35_WriteNeverSucceeds ==
    /\ view.op = "write_to_process"
          => /\ ~view.result.success
             /\ view.result.message = "No running process to write to"
    /\ \A p \in ProcIndexes : procs[p].input = <<>>

\* write_to_process has just returned for a session whose tracked process is
\* running.
C35_Witness ==
    /\ view.op = "write_to_process"
    /\ TrackedUnder(view.session_id) # 0
    /\ procs[TrackedUnder(view.session_id)].state = "running"
    /\ session_objs[sessions[view.session_id]].running

\* C36 (as claimed): the ToolResult an exec_command call returns when its
\* wait ends without a timeout reports the exit code of the process this
\* call launched, and success exactly when that code is 0, also when another
\* exec_command was started on the same session id in between.
C36_ResultOfOwnProcess ==
    [][\A c \in CallIndexes :
          (calls[c].pc = "waiting" /\ calls'[c].pc = "returned" /\ ~calls'[c].timed_out)
          => LET own == procs'[calls[c].proc]
             IN  /\ own.state = "exited"
                 /\ calls'[c].result.data.exit_code = own.returncode
                 /\ calls'[c].result.success = (own.returncode = JInt(0))]_vars

\* A command launched on session object o is still executing.
Executing(o) == \E p \in LaunchedOn(o) : procs[p].state = "running"

\* C37 (as claimed): the running flag of every registered session is true
\* exactly while a command launched on it has neither exited nor been killed
\* (by a timeout or otherwise), and view_shell never reports running=false
\* for a session one of whose commands is still executing.
C37_RunningFlagExact ==
    /\ \A sid \in SessionIds :
          sessions[sid] # 0
              => (session_objs[sessions[sid]].running <=> Executing(sessions[sid]))
    /\ (view.op = "view_shell" /\ sessions[view.session_id] # 0
           /\ Executing(sessions[view.session_id]))
          => view.result.data.running

\* The exec_command call c ends in this step by its timeout.
TimesOutNow(c) == calls[c].pc = "waiting" /\ calls'[c].timed_out

\* This step is an exec_command call that ends without launching a process.
FailsToLaunchNow == Len(calls') = Len(calls) + 1 /\ calls'[Len(calls')].proc = 0

\* The two buffers of a session object.
Buffers(session) == <<session.output_lines, session.console_lines>>

\* C38: an exec_command call that times out or fails to launch leaves the
\* output buffer and the console transcript of its session as they were (both
\* empty when the call has just created the session), and a view_shell that
\* follows returns the lines of these buffers.
C38_TimeoutKeepsBuffers ==
    [][/\ \A c \in CallIndexes :
            TimesOutNow(c)
                => Buffers(session_objs'[calls[c].session]) = Buffers(session_objs[calls[c].session])
       /\ FailsToLaunchNow =>
            LET o == calls'[Len(calls')].session
            IN  Buffers(session_objs'[o])
                    = IF o \in ObjIndexes THEN Buffers(session_objs[o]) ELSE <<(<<>>), (<<>>)>>
       /\ (view'.op = "view_shell" /\ ~view'.console /\ sessions[view'.session_id] # 0)
            => view'.result.data.console
                  = LastN(session_objs[sessions[view'.session_id]].output_lines, 50)]_vars

\* On one session a command wrote 300 lines and exited, a later command timed
\* out, and view_shell has returned the last 50 lines of the first.
C38_Witness ==
    /\ view.op = "view_shell"
    /\ ~view.console
    /\ sessions[view.session_id] # 0
    /\ \E c1, c2 \in CallIndexes :
          /\ c1 < c2
          /\ calls[c1].session = sessions[view.session_id]
          /\ calls[c2].session = sessions[view.session_id]
          /\ calls[c1].pc = "returned" /\ ~calls[c1].timed_out /\ calls[c1].proc # 0
          /\ calls[c2].pc = "returned" /\ calls[c2].timed_out
          /\ Len(calls[c1].result.data.output.lines) = 300
          /\ view.result.data.console = LastN(calls[c1].result.data.output.lines, 50)

\* This step is an exec_command call.
ExecStep == Len(calls') = Len(calls) + 1

\* C39: the registry changes only when an exec_command call adds the one
\* session of its id or when destroy empties it; after every exec_command
\* call, failed ones included, the session of the call is registered under
\* its id; and in every step other than destroy each registered session
\* stays registered as the same object, with the process handle it had
\* unless this step is an exec_command on the same session.
C39_RegistryGrowsUntilDestroy ==
    [][/\ sessions' # sessions =>
            \/ DestroyStep
            \/ /\ ExecStep
               /\ Len(session_objs') = Len(session_objs) + 1
               /\ \E sid \in SessionIds :
                     /\ sessions[sid] = 0
                     /\ sessions' = [sessions EXCEPT ![sid] = Len(session_objs')]
                     /\ session_objs'[Len(session_objs')].session_id = sid
       /\ ExecStep =>
            LET o == calls'[Len(calls')].session
            IN  sessions'[session_objs'[o].session_id] = o
       /\ ~DestroyStep =>
            \A sid \in SessionIds :
                sessions[sid] # 0 =>
                  /\ sessions'[sid] = sessions[sid]
                  /\ (~ExecStep \/ calls'[Len(calls')].session # sessions[sid])
                        => session_objs'[sessions[sid]].process
                              = session_objs[sessions[sid]].process]_vars

\* Two sessions are registered; the command of one has exited and its
\* handle is still tracked, the other was added by a call that failed to
\* launch.
C39_Witness ==
    \E s1, s2 \in SessionIds :
        /\ s1 # s2
        /\ sessions[s1] # 0 /\ sessions[s2] # 0
        /\ TrackedUnder(s1) # 0
        /\ procs[TrackedUnder(s1)].state = "exited"
        /\ TrackedUnder(s2) = 0

(***************************************************************************)
(* LocalSandbox file operations (158-206, 271-277).                        *)
(***************************************************************************)
MaxFileLen == 2
Contents == {"x"}

ToolResult(success, message, data) ==
    [type |-> "ToolResult", success |-> success, message |-> message, data |-> data]
BytesIO(content) == [type |-> "BytesIO", content |-> content]
Exception(name) == [type |-> "Exception", name |-> name]

IsFile(t) == t \in RealFiles /\ files[t].exists
IsDir(t) == t \in dirs \/ (t \notin TrackedDirs /\ t \in {DirName(f) : f \in RealFiles})
\* os.makedirs(d, exist_ok=True)
DirsAfterMakedirs(d) == IF d \in TrackedDirs THEN dirs \cup {d} ELSE dirs
\* len(f.readlines())
LineCount(content) ==
    Cardinality({i \in 1..Len(content) : SubSeq(content, i, i) = "\n"})
      + (IF Len(content) > 0 /\ SubSeq(content, Len(content), Len(content)) # "\n"
         THEN 1 ELSE 0)
Returned(op, path, result) ==
    [op |-> op, path |-> path, target |-> ResolvePath(path), outcome |-> "returned",
     result |-> result]
Raised(op, path, name) ==
    [op |-> op, path |-> path, target |-> ResolvePath(path), outcome |-> "raised",
     result |-> Exception(name)]

\* Lines 158-174.
FileWrite ==
    \E file \in FilePaths, content \in Contents,
       append, leading_newline, trailing_newline \in BOOLEAN :
        LET target == ResolvePath(file)
            final == (IF leading_newline THEN "\n" ELSE "") \o content
                       \o (IF trailing_newline THEN "\n" ELSE "")
            written == IF append THEN files[target].content \o final ELSE final
        IN  /\ Len(written) <= MaxFileLen
            /\ dirs' = DirsAfterMakedirs(DirName(target))
            /\ files' = [files EXCEPT ![target] = File(written)]
            /\ file_op' = Returned("file_write", file,
                                   ToolResult(TRUE, JStr("File written: " \o file), JNull))
            /\ UNCHANGED <<engineVars, askVars, shellVars, encodeVars>>

\* Lines 176-190, called without start_line and end_line.
FileRead ==
    \E file \in FilePaths :
        LET target == ResolvePath(file)
            content == files[target].content
        IN  /\ file_op' = Returned("file_read", file,
                  IF IsFile(target)
                  THEN ToolResult(TRUE, JNull,
                                  [content |-> content, line_count |-> LineCount(content)])
                  ELSE ToolResult(FALSE, JStr("File not found: " \o file), JNull))
            /\ UNCHANGED <<files, dirs, engineVars, askVars, shellVars, encodeVars>>

\* Lines 192-194.
FileExists ==
    \E path \in LogicalPaths :
        LET target == ResolvePath(path)
        IN  /\ file_op' = Returned("file_exists", path,
                  ToolResult(TRUE, JNull, [exists |-> IsFile(target) \/ IsDir(target)]))
            /\ UNCHANGED <<files, dirs, engineVars, askVars, shellVars, encodeVars>>

\* Lines 196-206: a file is removed, a directory is removed with all below it.
FileDelete ==
    \E path \in LogicalPaths :
        LET target == ResolvePath(path)
        IN  /\ IF IsFile(target)
               THEN /\ files' = [files EXCEPT ![target] = NoFile]
                    /\ dirs' = dirs
               ELSE IF IsDir(target)
               THEN /\ files' = [t \in RealFiles |->
                                   IF StartsWithAt(t, 1, target \o "/") THEN NoFile
                                   ELSE files[t]]
                    /\ dirs' = {d \in dirs : d # target /\ ~StartsWithAt(d, 1, target \o "/")}
               ELSE UNCHANGED <<files, dirs>>
            /\ file_op' = Returned("file_delete", path,
                                   ToolResult(TRUE, JStr("Deleted: " \o path), JNull))
            /\ UNCHANGED <<engineVars, askVars, shellVars, encodeVars>>

\* Lines 271-277: no try; open() raises to the caller when there is no file.
FileDownload ==
    \E path \in FilePaths :
        LET target == ResolvePath(path)
        IN  /\ file_op' = IF IsFile(target)
                          THEN Returned("file_download", path, BytesIO(files[target].content))
                          ELSE Raised("file_download", path, "FileNotFoundError")
            /\ UNCHANGED <<files, dirs, engineVars, askVars, shellVars, encodeVars>>

InitFiles == FilesIdle /\ ShellIdle /\ AskIdle /\ EngineIdle /\ EncodeIdle

NextFiles ==
    \/ FileWrite
    \/ FileRead
    \/ FileExists
    \/ FileDelete
    \/ FileDownload

SpecFiles == InitFiles /\ [][NextFiles]_vars

(***************************************************************************)
(* Claims about paths and files, checked under SpecFiles.                  *)
(***************************************************************************)
\* The target the one rule of path resolution gives: the home directory and
\* what lies below it go under the sandbox root, a sibling of it does not.
UnderHome(path) == path = "/home/ubuntu" \/ StartsWithAt(path, 1, "/home/ubuntu/")
RuleTarget(path) ==
    IF UnderHome(path)
    THEN SANDBOX_WORKDIR \o SubSeq(path, Len("/home/ubuntu") + 1, Len(path))
    ELSE IF StartsWithAt(path, 1, "/") THEN path
    ELSE SANDBOX_WORKDIR \o "/" \o path

\* C28 (as claimed): every file operation acts on the target the rule gives
\* for its logical path: under the sandbox root for /home/ubuntu and paths
\* below it, the path itself for any other absolute path (siblings such as
\* /home/ubuntu2 included), under the sandbox root for a relative path.
C28_OneResolutionRule ==
    file_op.op # "none" => file_op.target = RuleTarget(file_op.path)

(***************************************************************************)
(* OpenAILLM._inject_tools_into_messages (118-152).                        *)
(***************************************************************************)
MaxHistory == 3

\* The messages a history is made of.
SystemMessage(text) == JObj(<<KV("role", JStr("system")), KV("content", JStr(text))>>)
UserMessage == JObj(<<KV("role", JStr("user")), KV("content", JStr("U"))>>)
DeveloperMessage == JObj(<<KV("role", JStr("developer")), KV("content", JStr("D"))>>)
AssistantCall ==
    JObj(<<KV("role", JStr("assistant")), KV("content", JNull),
           KV("tool_calls", JList(<<JObj(<<
               KV("id", JStr("c1")), KV("type", JStr("function")),
               KV("function", JObj(<<KV("name", JStr("shell_exec")),
                                     KV("arguments", JStr("{\"command\": \"ls\"}"))>>))>>)>>))>>)
ToolMessage ==
    JObj(<<KV("role", JStr("tool")), KV("tool_call_id", JStr("c1")),
           KV("function_name", JStr("shell_exec")), KV("content", JStr("out"))>>)
MessageKinds ==
    {SystemMessage("S1"), SystemMessage("S2"), UserMessage, DeveloperMessage,
     AssistantCall, ToolMessage}
Histories == UNION {[1..n -> MessageKinds] : n \in 0..MaxHistory}

\* Lines 43-57: _format_tools_for_prompt, for descriptors without parameters.
RECURSIVE FormatToolLines(_, _)
FormatToolLines(tools, i) ==
    IF i > Len(tools) THEN <<>>
    ELSE LET tool_def == tools[i]
             func == GetKey(tool_def, "function")
             desc == PyDictGet(func, "description", JStr(""))
         IN  (IF IsStrEq(PyDictGet(tool_def, "type", JNull), "function")
              THEN <<"### " \o GetKey(func, "name").s, "Description: " \o desc.s, "">>
              ELSE <<>>) \o FormatToolLines(tools, i + 1)
RECURSIVE JoinLines(_)
JoinLines(lines) ==
    IF Len(lines) = 0 THEN ""
    ELSE IF Len(lines) = 1 THEN lines[1]
    ELSE lines[1] \o "\n" \o JoinLines(Tail(lines))
FormatToolsForPrompt(tools) == JoinLines(FormatToolLines(tools, 1))

\* Lines 13-40: TOOL_CALL_SYSTEM_PROMPT.format(tools_description=...); the
\* rules of the prompt between its first line and the tool list are left out.
ToolSystem(tools) ==
    "\nYou have access to the following tools.\n\nAvailable tools:\n"
        \o FormatToolsForPrompt(tools) \o "\n"

\* Mutant of InjectHere: every system message takes the block.
InjectHere_everySystem(msg, system_injected) ==
    IsStrEq(PyDictGet(msg, "role", JNull), "system")

\* Line 125: msg.get("role") == "system" and not system_injected
InjectHere(msg, system_injected) ==
    IsStrEq(PyDictGet(msg, "role", JNull), "system") /\ ~system_injected

\* Lines 126-129, 132-137 and 139-147: the message appended for msg.
Reworded(role, content) == JObj(<<KV("role", JStr(role)), KV("content", content)>>)
SystemWithTools(msg, tool_system) ==
    Reworded("system", JStr(GetKey(msg, "content").s \o "\n\n" \o tool_system))
ToolAsUser(msg) ==
    Reworded("user",
        JStr("[Tool Result for " \o PyStr(PyDictGet(msg, "function_name", JStr("unknown")))
             \o "]:\n" \o PyStr(PyDictGet(msg, "content", JStr("")))
             \o "\n\nBased on this result, continue with the next step. If you need to use another tool, use the tool_call format. If the task is complete, provide your final response."))
OtherMessage(msg) ==
    LET r == PyDictGet(msg, "role", JStr("user"))
        role == IF r.t = "str" /\ r.s \in {"system", "user", "assistant"} THEN r.s ELSE "user"
        content == PyDictGet(msg, "content", JStr(""))
        tool_calls == PyDictGet(msg, "tool_calls", JNull)
    IN  IF PyTruthy(tool_calls)
        THEN LET fn == PyDictGet(tool_calls.items[1], "function", JObj(<<>>))
             IN  Reworded(role,
                   JStr((IF PyTruthy(content) THEN content.s ELSE "")
                        \o "\n" \o FenceToolCall \o "\n{\"name\": \""
                        \o PyStr(PyDictGet(fn, "name", JStr("")))
                        \o "\", \"arguments\": "
                        \o PyStr(PyDictGet(fn, "arguments", JStr("{}")))
                        \o "}\n" \o Fence))
        ELSE Reworded(role, content)

\* Lines 122-147: the loop over the history.
RECURSIVE InjectLoop(_, _, _, _, _)
InjectLoop(msgs, i, tool_system, system_injected, new_messages) ==
    IF i > Len(msgs)
    THEN [new_messages |-> new_messages, system_injected |-> system_injected]
    ELSE LET msg == msgs[i]
         IN  IF InjectHere(msg, system_injected)
             THEN InjectLoop(msgs, i + 1, tool_system, TRUE,
                             Append(new_messages, SystemWithTools(msg, tool_system)))
             ELSE IF IsStrEq(PyDictGet(msg, "role", JNull), "tool")
             THEN InjectLoop(msgs, i + 1, tool_system, system_injected,
                             Append(new_messages, ToolAsUser(msg)))
             ELSE InjectLoop(msgs, i + 1, tool_system, system_injected,
                             Append(new_messages, OtherMessage(msg)))

\* Lines 118-152.
InjectToolsIntoMessages(msgs, tools) ==
    LET tool_system == ToolSystem(tools)
        looped == InjectLoop(msgs, 1, tool_system, FALSE, <<>>)
    IN  IF ~looped.system_injected
        THEN <<Reworded("system", JStr(tool_system))>> \o looped.new_messages
        ELSE looped.new_messages

EncodeTools == <<ToolDescriptor>>

\* The encoder is called on the history.
Encode ==
    /\ api_messages = JNull
    /\ api_messages' = JList(InjectToolsIntoMessages(messages, EncodeTools))
    /\ UNCHANGED <<messages, engineVars, askVars, shellVars, fileVars>>

\* The caller takes the list; another history is encoded next.
EncodeAgain ==
    /\ api_messages # JNull
    /\ \E h \in Histories : messages' = h
    /\ api_messages' = JNull
    /\ UNCHANGED <<engineVars, askVars, shellVars, fileVars>>

InitEncode ==
    /\ messages \in Histories
    /\ api_messages = JNull
    /\ EngineIdle /\ AskIdle /\ ShellIdle /\ FilesIdle

NextEncode == Encode \/ EncodeAgain

SpecEncode == InitEncode /\ [][NextEncode]_vars

(***************************************************************************)
(* Claims about the encoder, checked under SpecEncode.                     *)
(***************************************************************************)
IsSystem(msg) == IsStrEq(PyDictGet(msg, "role", JNull), "system")
SystemPositions(msgs) == {i \in 1..Len(msgs) : IsSystem(msgs[i])}
HoldsBlock(msg) == Contains(GetKey(msg, "content").s, ToolSystem(EncodeTools))
\* The text of msg is kept in out: the content, and for a tool message the
\* name of its function.
TextKept(msg, out) ==
    LET content == PyDictGet(msg, "content", JNull)
    IN  content.t = "str" => Contains(GetKey(out, "content").s, content.s)

\* C33: the encoded list holds the instruction block in exactly one message:
\* the first system message of the history with the block appended when there
\* is one (every later system message is as it was), a new leading system
\* message otherwise; every original message has its counterpart at the same
\* relative position, and the list is as long as the history, or one longer
\* when the message was inserted.
C33_BlockInOneMessage ==
    api_messages # JNull =>
        LET out == api_messages.items
            sys == SystemPositions(messages)
            first == CHOOSE i \in sys : \A j \in sys : i <= j
            shift == IF sys = {} THEN 1 ELSE 0
        IN  /\ Len(out) = Len(messages) + shift
            /\ Cardinality({i \in 1..Len(out) : HoldsBlock(out[i])}) = 1
            /\ IF sys = {}
               THEN out[1] = SystemMessage(ToolSystem(EncodeTools))
               ELSE /\ out[first] = SystemMessage(GetKey(messages[first], "content").s
                                                    \o "\n\n" \o ToolSystem(EncodeTools))
                    /\ \A i \in sys : i # first => out[i] = messages[i]
            /\ \A i \in 1..Len(messages) : TextKept(messages[i], out[i + shift])

\* A history with a user message before two system messages was encoded:
\* the block is in the first of the two, the second is as it was.
C33_Witness ==
    /\ messages = <<UserMessage, SystemMessage("S1"), SystemMessage("S2")>>
    /\ api_messages # JNull
    /\ HoldsBlock(api_messages.items[2])
    /\ api_messages.items[3] = SystemMessage("S2")

====
